---- MODULE Spec2Model ----
(***************************************************************************)
(* A model of the content_recorder application of jayray: the persisted    *)
(* rows (ContentIdea, ContentSource, ScriptBreakdown, IdeaLog), the HTTP   *)
(* handlers of content_recorder/views.py and the admin actions of          *)
(* content_recorder/admin.py, run by concurrent request workers against a  *)
(* database with READ COMMITTED visibility and row-level write locks.      *)
(***************************************************************************)
EXTENDS Integers, Sequences, FiniteSets, TLC

\* ------------------------------------------------------------------ bounds
\* Number of ContentIdea rows that can be recorded.
MaxIdeas == 2
\* Number of IdeaLog rows a run of all the handlers can write.
MaxLog == 3
\* Number of IdeaLog rows a run of recording and script generation can write.
MaxGenLog == 4
\* Number of IdeaLog rows a run of the storyboard handlers can write.
MaxImgLog == 2
\* Number of IdeaLog rows a run of recording, editing and script generation
\* can write.
MaxFlowLog == 3
\* Number of IdeaLog rows a run of the record form can write.
MaxRecLog == 2
\* Number of IdeaLog rows a run of the scene handlers can write.
MaxSceneLog == 2
\* Number of IdeaLog rows a run of the handlers that meet a trashed idea
\* can write.
MaxTrashLog == 3
\* Number of SceneImage rows that can be generated.
MaxImages == 2
\* Number of files the trash storage can hold.
MaxTrashFiles == 2

\* The request workers of the web server; every one runs one handler at a time.
Workers == {1, 2}

IdeaIds == 1..MaxIdeas

\* ------------------------------------------------------- Python values
\* A Python str is a sequence of lexical tokens; a JSON value is a tagged
\* record: None, int, str, list or dict (keys are atomic names).
JNull == [k |-> "null"]
JNum(n) == [k |-> "num", n |-> n]
JStr(s) == [k |-> "str", s |-> s]
JList(items) == [k |-> "list", items |-> items]
JObj(fields) == [k |-> "obj", fields |-> fields]

\* An exception: its class, the statement that raised it and its message.
Exc(type, at, msg) == [type |-> type, at |-> at, msg |-> msg]

\* The classes an exception class is an instance of. requests.JSONDecodeError
\* (requests >= 2.27) derives from both InvalidJSONError, a RequestException,
\* and json.JSONDecodeError; before 2.27 Response.json raised the json
\* module's own error. The RelatedObjectDoesNotExist of a reverse one-to-one
\* accessor derives from the related model's DoesNotExist and AttributeError.
ExcBases(type) ==
    CASE type = "requests.ConnectionError" -> {type, "RequestException", "Exception"}
      [] type = "requests.Timeout" -> {type, "RequestException", "Exception"}
      [] type = "requests.HTTPError" -> {type, "RequestException", "Exception"}
      [] type = "requests.JSONDecodeError" ->
            {type, "RequestException", "json.JSONDecodeError", "ValueError", "Exception"}
      [] type = "json.JSONDecodeError" -> {type, "ValueError", "Exception"}
      [] type = "RelatedObjectDoesNotExist" ->
            {type, "ScriptBreakdown.DoesNotExist", "ObjectDoesNotExist", "AttributeError",
             "Exception"}
      [] type \in { "IndexError", "KeyError" } -> {type, "LookupError", "Exception"}
      [] OTHER -> {type, "Exception"}

IsInstance(e, cls) == cls \in ExcBases(e.type)

\* The result of an expression: a value, or an exception raised.
Ok(v) == [ok |-> TRUE, val |-> v]
Raise(e) == [ok |-> FALSE, exc |-> e]

\* ------------------------------------------------------------ json.loads
\* String literals of the JSON texts of the model: the token and the Python
\* str it denotes. Two of them hold a JSON text themselves (message.content
\* is a JSON document encoded as a JSON string).
ContentOne ==
    << "{", "'script_breakdown'", ":", "{", "'scenes'", ":", "[",
       "{", "'description'", ":", "'Intro'", "}", "]", "}", "}" >>
ContentTwo ==
    << "{", "'script_breakdown'", ":", "{", "'scenes'", ":", "[",
       "{", "'description'", ":", "'Hook'", "}", ",",
       "{", "'description'", ":", "'Main'", "}", "]", "}", "}" >>
ContentGarbage == << "Oops", ",", "I", "forgot", "the", "JSON" >>
\* JSON texts that are valid and are no script breakdown: a list, a number,
\* a string and null at the top level and under 'script_breakdown', an
\* object without 'scenes', and scenes that are a number.
ContentList == << "[", "1", "]" >>
ContentNum == << "1" >>
ContentStr == << "'Intro'" >>
ContentNull == << "null" >>
ContentInnerList == << "{", "'script_breakdown'", ":", "[", "1", "]", "}" >>
ContentInnerStr == << "{", "'script_breakdown'", ":", "'Intro'", "}" >>
ContentInnerNull == << "{", "'script_breakdown'", ":", "null", "}" >>
ContentNoScenes == << "{", "'script_breakdown'", ":", "{", "}", "}" >>
ContentScenesNum ==
    << "{", "'script_breakdown'", ":", "{", "'scenes'", ":", "1", "}", "}" >>

StrLit(tok) ==
    CASE tok = "'script_breakdown'" -> << "script_breakdown" >>
      [] tok = "'scenes'" -> << "scenes" >>
      [] tok = "'description'" -> << "description" >>
      [] tok = "'message'" -> << "message" >>
      [] tok = "'content'" -> << "content" >>
      [] tok = "'error'" -> << "error" >>
      [] tok = "'Intro'" -> << "Intro" >>
      [] tok = "'Hook'" -> << "Hook" >>
      [] tok = "'Main'" -> << "Main" >>
      [] tok = "'<ContentOne>'" -> ContentOne
      [] tok = "'<ContentTwo>'" -> ContentTwo
      [] tok = "'<ContentGarbage>'" -> ContentGarbage
      [] tok = "'<ContentList>'" -> ContentList
      [] tok = "'<ContentNum>'" -> ContentNum
      [] tok = "'<ContentStr>'" -> ContentStr
      [] tok = "'<ContentNull>'" -> ContentNull
      [] tok = "'<ContentInnerList>'" -> ContentInnerList
      [] tok = "'<ContentInnerStr>'" -> ContentInnerStr
      [] tok = "'<ContentInnerNull>'" -> ContentInnerNull
      [] tok = "'<ContentNoScenes>'" -> ContentNoScenes
      [] tok = "'<ContentScenesNum>'" -> ContentScenesNum
      [] OTHER -> << >>

StrTokens ==
    { "'script_breakdown'", "'scenes'", "'description'", "'message'", "'content'",
      "'error'", "'Intro'", "'Hook'", "'Main'",
      "'<ContentOne>'", "'<ContentTwo>'", "'<ContentGarbage>'",
      "'<ContentList>'", "'<ContentNum>'", "'<ContentStr>'", "'<ContentNull>'",
      "'<ContentInnerList>'", "'<ContentInnerStr>'", "'<ContentInnerNull>'",
      "'<ContentNoScenes>'", "'<ContentScenesNum>'" }

NumLit(tok) == CASE tok = "1" -> 1 [] tok = "2" -> 2 [] OTHER -> 0
NumTokens == { "1", "2" }

EmptyFields == [key \in {} |-> JNull]

NoParse == [ok |-> FALSE, val |-> JNull, pos |-> 0]
Parsed(v, pos) == [ok |-> TRUE, val |-> v, pos |-> pos]

RECURSIVE ParseValue(_, _)
RECURSIVE ParseItems(_, _, _)
RECURSIVE ParseMembers(_, _, _)

\* The JSON value starting at token i of text t, and the position after it.
ParseValue(t, i) ==
    IF i > Len(t) THEN NoParse
    ELSE IF t[i] = "null" THEN Parsed(JNull, i + 1)
    ELSE IF t[i] \in NumTokens THEN Parsed(JNum(NumLit(t[i])), i + 1)
    ELSE IF t[i] \in StrTokens THEN Parsed(JStr(StrLit(t[i])), i + 1)
    ELSE IF t[i] = "[" THEN
        IF i + 1 <= Len(t) /\ t[i + 1] = "]" THEN Parsed(JList(<< >>), i + 2)
        ELSE ParseItems(t, i + 1, << >>)
    ELSE IF t[i] = "{" THEN
        IF i + 1 <= Len(t) /\ t[i + 1] = "}" THEN Parsed(JObj(EmptyFields), i + 2)
        ELSE ParseMembers(t, i + 1, << >>)
    ELSE NoParse

\* The rest of a list, after "[" or ",": a value, then "," or "]".
ParseItems(t, i, acc) ==
    LET v == ParseValue(t, i) IN
    IF ~v.ok \/ v.pos > Len(t) THEN NoParse
    ELSE IF t[v.pos] = "]" THEN Parsed(JList(Append(acc, v.val)), v.pos + 1)
    ELSE IF t[v.pos] = "," THEN ParseItems(t, v.pos + 1, Append(acc, v.val))
    ELSE NoParse

\* The rest of an object, after "{" or ",": key ":" value, then "," or "}".
\* acc is the sequence of <<key, value>> pairs read so far; a later key
\* replaces an earlier equal one, as in a Python dict.
PairsToFields(pairs) ==
    LET keys == { pairs[n][1] : n \in 1..Len(pairs) }
        last(key) == CHOOSE n \in 1..Len(pairs) :
                        /\ pairs[n][1] = key
                        /\ \A m \in 1..Len(pairs) : pairs[m][1] = key => m <= n
    IN [key \in keys |-> pairs[last(key)][2]]

ParseMembers(t, i, acc) ==
    IF i + 1 > Len(t) \/ t[i] \notin StrTokens \/ Len(StrLit(t[i])) # 1 \/ t[i + 1] # ":"
    THEN NoParse
    ELSE LET v == ParseValue(t, i + 2)
             pairs == Append(acc, << StrLit(t[i])[1], v.val >>)
         IN IF ~v.ok \/ v.pos > Len(t) THEN NoParse
            ELSE IF t[v.pos] = "}" THEN Parsed(JObj(PairsToFields(pairs)), v.pos + 1)
            ELSE IF t[v.pos] = "," THEN ParseMembers(t, v.pos + 1, pairs)
            ELSE NoParse

\* json.loads(x): TypeError unless x is a str; JSONDecodeError unless the
\* whole text is one JSON value.
json_loads(x) ==
    IF x.k # "str"
    THEN Raise(Exc("TypeError", "json.loads", "the JSON object must be str, bytes or bytearray"))
    ELSE LET r == ParseValue(x.s, 1) IN
         IF r.ok /\ r.pos = Len(x.s) + 1 THEN Ok(r.val)
         ELSE Raise(Exc("json.JSONDecodeError", "json.loads", "Expecting value"))

\* obj[key] with a str key, as Python evaluates the subscript.
GetItem(obj, key) ==
    IF obj.k = "obj"
    THEN IF key \in DOMAIN obj.fields THEN Ok(obj.fields[key])
         ELSE Raise(Exc("KeyError", "subscript", key))
    ELSE Raise(Exc("TypeError", "subscript", "indices must be integers or not subscriptable"))

\* ---------------------------------------------------------------- state
VARIABLES
    ideas,       \* ContentIdea rows; the row at index n has content_id n
    sources,     \* ContentSource rows
    breakdowns,  \* ScriptBreakdown rows; the row at index n has id n
    logs,        \* IdeaLog rows: for each content_id, the actions logged, in order
    lastGen,     \* history: for each content_id, the generation that committed last
    pc,          \* each worker's position in the handler it runs
    loc,         \* each worker's local variables while it runs a handler
    out,         \* the answer the step just taken sent, and the request it answers
    quota,       \* the number of IdeaLog rows the run can write
    images,      \* SceneImage rows; the row at index n has id n
    files,       \* the names of the files in the media and the trash storage
    call         \* the last application of a function by itself, and its result

vars ==
    << ideas, sources, breakdowns, logs, lastGen, pc, loc, out, quota, images, files, call >>

\* Python's None, where a str is expected.
None == "<None>"

\* ContentIdea.StatusChoices
StatusChoices ==
    { "Draft", "Research", "Script", "Production", "Published", "Archived", "Duplicate" }

\* A ContentIdea row as the model keeps it (timestamps and the image are not kept).
IdeaRow(idea_name, raw_content, status, is_deleted) ==
    [idea_name |-> idea_name, raw_content |-> raw_content,
     status |-> status, is_deleted |-> is_deleted]

SourceRow(idea, source_type, source_data) ==
    [idea |-> idea, source_type |-> source_type, source_data |-> source_data]

BreakdownRow(idea, breakdown_data, prompt_used, target_platform, global_mood, target_audience) ==
    [idea |-> idea, breakdown_data |-> breakdown_data, prompt_used |-> prompt_used,
     target_platform |-> target_platform, global_mood |-> global_mood,
     target_audience |-> target_audience]

\* The persisted state as one value.
DB == [ideas |-> ideas, sources |-> sources, breakdowns |-> breakdowns, logs |-> logs]

\* ContentIdea.all_objects: every row.
AllObjects(db) == 1..Len(db.ideas)

\* A default manager without the filter.
ContentIdeaManager_get_queryset_Unfiltered(db) == AllObjects(db)

\* The handlers' lookups on the manager of every row.
Objects_AllRows(db) == AllObjects(db)

\* ContentIdea.objects: ContentIdeaManager.get_queryset filters is_deleted=False.
ContentIdeaManager_get_queryset(db) ==
    { i \in AllObjects(db) : db.ideas[i].is_deleted = FALSE }

Objects(db) == ContentIdeaManager_get_queryset(db)

\* idea.breakdown: the ids of the ScriptBreakdown rows whose idea is pk.
BreakdownsOf(db, pk) == { b \in 1..Len(db.breakdowns) : db.breakdowns[b].idea = pk }

\* ------------------------------------------------------------ statements
\* The statements a handler sends to the database.
IdeaCreate(row) == [op |-> "idea_create", row |-> row]
SourceCreate(row) == [op |-> "source_create", row |-> row]
LogCreate(idea, action) == [op |-> "log_create", idea |-> idea, action |-> action]
IdeaSave(pk, row) == [op |-> "idea_save", pk |-> pk, row |-> row]
BreakdownSave(pk, row) == [op |-> "breakdown_save", pk |-> pk, row |-> row]

\* A save that writes new rows only and leaves an existing row as it is.
ModelSave_KeepsOld(rows, pk, row) ==
    IF pk = 0 THEN Append(rows, row) ELSE rows

\* A save that updates the payload of a breakdown row and leaves its other
\* fields as they are stored.
ModelSave_PayloadOnly(rows, pk, row) ==
    IF pk = 0 THEN Append(rows, row)
    ELSE IF "breakdown_data" \in DOMAIN row
    THEN [rows EXCEPT ![pk].breakdown_data = row.breakdown_data]
    ELSE [rows EXCEPT ![pk] = row]

\* Model.save(): an instance without a primary key (pk 0) is inserted, one
\* with a primary key has its row updated, every field of it.
ModelSave(rows, pk, row) ==
    IF pk = 0 THEN Append(rows, row) ELSE [rows EXCEPT ![pk] = row]

\* The state after one statement of a log that keeps the last row only.
Apply_LogKeepsLast(db, w) ==
    CASE w.op = "idea_create" -> [db EXCEPT !.ideas = Append(@, w.row)]
      [] w.op = "source_create" -> [db EXCEPT !.sources = Append(@, w.row)]
      [] w.op = "log_create" -> [db EXCEPT !.logs[w.idea] = << w.action >>]
      [] w.op = "idea_save" -> [db EXCEPT !.ideas = ModelSave(@, w.pk, w.row)]
      [] w.op = "breakdown_save" -> [db EXCEPT !.breakdowns = ModelSave(@, w.pk, w.row)]

\* The state after one statement.
Apply(db, w) ==
    CASE w.op = "idea_create" -> [db EXCEPT !.ideas = Append(@, w.row)]
      [] w.op = "source_create" -> [db EXCEPT !.sources = Append(@, w.row)]
      [] w.op = "log_create" -> [db EXCEPT !.logs[w.idea] = Append(@, w.action)]
      [] w.op = "idea_save" -> [db EXCEPT !.ideas = ModelSave(@, w.pk, w.row)]
      [] w.op = "breakdown_save" -> [db EXCEPT !.breakdowns = ModelSave(@, w.pk, w.row)]

RECURSIVE ApplyAll(_, _)
ApplyAll(db, ws) ==
    IF ws = << >> THEN db ELSE ApplyAll(Apply(db, Head(ws)), Tail(ws))

\* A block without a transaction: every statement sent stays committed.
AtomicExit_Autocommit(ws, raised) == ws

\* A block that on an exception rolls back to a savepoint taken after its
\* first statement.
AtomicExit_KeepsFirst(ws, raised) ==
    IF raised /\ ws # << >> THEN << Head(ws) >> ELSE ws

\* Leaving a `with transaction.atomic()` block whose statements so far were
\* ws: the statements that are committed. With an exception the block is
\* rolled back, without one it commits.
AtomicExit(ws, raised) == IF raised THEN << >> ELSE ws

\* The kinds of the statements ws.
Ops(ws) == { ws[n].op : n \in 1..Len(ws) }

\* ScriptBreakdown.idea as a plain foreign key: no unique index.
UniqueViolation_NoIndex(db, w) == FALSE

\* The unique index of ScriptBreakdown.idea (a OneToOneField): an INSERT of a
\* second row for the same idea is refused.
UniqueViolation(db, w) ==
    /\ w.op = "breakdown_save"
    /\ w.pk = 0
    /\ BreakdownsOf(db, w.row.idea) # {}

\* breakdown_data is a JSONField without null=True: None is sent as SQL
\* NULL, which the column refuses.
NotNullViolation(w) ==
    /\ w.op = "breakdown_save"
    /\ w.row.breakdown_data = JNull

\* The constraints of the schema a statement can violate.
IntegrityViolation(db, w) == UniqueViolation(db, w) \/ NotNullViolation(w)

\* A failure the database can answer a statement with, whatever the statement
\* (a value too long for its column, a lock that is not granted).
DbFault(at) == Exc("OperationalError", at, "database is locked")

\* The statements ws run one after the other inside an atomic block, of
\* which statement number failAt (0: none; Len(ws) + 1: the commit) is
\* answered with a fault: the exception that leaves the block, if any.
RunAtomic(db, ws, failAt) ==
    LET uniq == { n \in 1..Len(ws) :
                    IntegrityViolation(ApplyAll(db, SubSeq(ws, 1, n - 1)), ws[n]) }
        firstUniq == IF uniq = {} THEN Len(ws) + 2
                     ELSE CHOOSE n \in uniq : \A m \in uniq : n <= m
        stop == IF failAt = 0 THEN firstUniq
                ELSE IF failAt < firstUniq THEN failAt ELSE firstUniq
    IN  IF stop = Len(ws) + 2 THEN [raised |-> FALSE, done |-> ws, exc |-> Exc("", "", "")]
        ELSE [raised |-> TRUE,
              done |-> SubSeq(ws, 1, stop - 1),
              exc |-> IF stop = firstUniq /\ stop # failAt
                      THEN Exc("IntegrityError", ws[stop].op,
                               IF NotNullViolation(ws[stop]) THEN "NOT NULL constraint failed"
                               ELSE "UNIQUE constraint failed")
                      ELSE DbFault(IF stop = Len(ws) + 1 THEN "commit" ELSE ws[stop].op)]

\* ------------------------------------------------------------- responses
NoExc == Exc("", "", "")

\* What a response is the answer to: the handler and the idea addressed
\* (a handler adds what it was asked and what it committed).
Req(h, pk) == [h |-> h, pk |-> pk]
NoReq == Req("none", 0)

\* A redirect carrying a notice of the messages framework (earlier: the
\* notices the request had queued before it).
Redirect(to, level, notice, exc) ==
    [code |-> 302, to |-> to, level |-> level, notice |-> notice, exc |-> exc,
     earlier |-> << >>]
\* get_object_or_404 found no row.
Http404 == [code |-> 404, to |-> "", level |-> "", notice |-> "", exc |-> NoExc, earlier |-> << >>]
\* An exception no handler caught: the server answers 500.
Uncaught(exc) == [code |-> 500, to |-> "", level |-> "", notice |-> "", exc |-> exc, earlier |-> << >>]
\* A page rendered without a redirect (a form shown again with its errors).
Rendered(notice) ==
    [code |-> 200, to |-> "", level |-> "", notice |-> notice, exc |-> NoExc,
     earlier |-> << >>]
\* No request has finished yet.
NoResponse == [code |-> 0, to |-> "", level |-> "", notice |-> "", exc |-> NoExc, earlier |-> << >>]

NoForm ==
    [target_platform |-> None, global_mood |-> None,
     llm_prompt_version |-> None, target_audience |-> None]

NoLocals == [h |-> "none", willLog |-> {}]

Idle(p) == pc[p] = "idle"

\* The step taken sent no answer.
NoOut == [by |-> 0, resp |-> NoResponse, req |-> NoReq]

\* A worker takes a request: its locals are those of the handler.
Begin(p, at, locals) ==
    /\ pc' = [pc EXCEPT ![p] = at]
    /\ loc' = [loc EXCEPT ![p] = locals]
    /\ out' = NoOut
    /\ UNCHANGED << quota, call >>

\* A worker moves on inside its handler.
Goto(p, at, locals) ==
    /\ pc' = [pc EXCEPT ![p] = at]
    /\ loc' = [loc EXCEPT ![p] = locals]
    /\ out' = NoOut
    /\ UNCHANGED << quota, call >>

\* A worker ends its request with response r; its locals are dropped.
Finish(p, r, req) ==
    /\ pc' = [pc EXCEPT ![p] = "idle"]
    /\ loc' = [loc EXCEPT ![p] = NoLocals]
    /\ out' = [by |-> p, resp |-> r, req |-> req]
    /\ UNCHANGED << quota, call >>

\* The persisted state of the ideas becomes db; the images and the stored
\* files stay.
Persist(db) ==
    /\ ideas' = db.ideas
    /\ sources' = db.sources
    /\ breakdowns' = db.breakdowns
    /\ logs' = db.logs
    /\ UNCHANGED << images, files >>

\* Log rows still to be written by the requests that are running.
RECURSIVE Reserved(_)
Reserved(ps) ==
    IF ps = {} THEN 0
    ELSE LET p == CHOOSE q \in ps : TRUE
         IN  Cardinality(loc[p].willLog) + Reserved(ps \ {p})

\* Log rows written so far.
RECURSIVE Logged(_)
Logged(is) ==
    IF is = {} THEN 0
    ELSE LET i == CHOOSE j \in is : TRUE
         IN  Len(logs[i]) + Logged(is \ {i})

\* There is room for one more log row for each idea of pks.
LogRoom(pks) == Logged(IdeaIds) + Reserved(Workers) + Cardinality(pks) <= quota

\* No generation has committed for the idea.
NoGen ==
    [n |-> 0, data |-> JNull, form |-> NoForm, conc |-> FALSE, raced |-> FALSE, had |-> FALSE]

\* No function has been applied by itself.
NoCall == [fn |-> "none"]

\* The empty database of a fresh deployment, and no request running.
Fresh ==
    /\ ideas = << >>
    /\ sources = << >>
    /\ breakdowns = << >>
    /\ logs = [i \in IdeaIds |-> << >>]
    /\ pc = [p \in Workers |-> "idle"]
    /\ loc = [p \in Workers |-> NoLocals]
    /\ out = NoOut
    /\ lastGen = [i \in IdeaIds |-> NoGen]
    /\ images = << >>
    /\ files = {}
    /\ call = NoCall

Init == Fresh /\ quota = MaxLog

\* ------------------------------------------------- recording an idea
\* No file in request.FILES.
NoFile == [ext |-> "", size |-> 0, utf8 |-> TRUE, parses |-> TRUE, text |-> << >>]

\* str.lower() of a file extension.
Lower(ext) ==
    CASE ext = ".TXT" -> ".txt"
      [] ext = ".DOCX" -> ".docx"
      [] ext = ".PDF" -> ".pdf"
      [] OTHER -> ext

\* str.strip(): leading and trailing whitespace removed.
RECURSIVE LStrip(_)
LStrip(s) == IF s # << >> /\ Head(s) = " " THEN LStrip(Tail(s)) ELSE s
RECURSIVE RStrip(_)
RStrip(s) == IF s # << >> /\ s[Len(s)] = " " THEN RStrip(SubSeq(s, 1, Len(s) - 1)) ELSE s
Strip(s) == RStrip(LStrip(s))

\* str.startswith(prefix), prefix one token
StartsWith(s, prefix) == s # << >> /\ Head(s) = prefix

\* extract_text_from_file: the text of an uploaded file, or a str starting
\* with "ERROR:"; libs are the parser libraries the import found.
extract_text_from_file(uploaded_file, libs) ==
    LET ext == Lower(uploaded_file.ext) IN
    IF uploaded_file.size = 0 THEN Ok(<< "ERROR:", "Empty file uploaded." >>)
    ELSE IF ext = ".txt" THEN
        IF uploaded_file.utf8 THEN Ok(uploaded_file.text)
        ELSE Raise(Exc("UnicodeDecodeError", "decode", "invalid start byte"))
    ELSE IF ext \in { ".doc", ".docx" } THEN
        IF "docx" \in libs THEN
            IF uploaded_file.parses THEN Ok(uploaded_file.text)
            ELSE Ok(<< "ERROR:", "Could not parse Word document." >>)
        ELSE Ok(<< "ERROR:", "python-docx not installed." >>)
    ELSE IF ext = ".pdf" THEN
        IF "pypdf" \in libs THEN
            IF uploaded_file.parses THEN Ok(uploaded_file.text)
            ELSE Ok(<< "ERROR:", "Could not parse PDF document." >>)
        ELSE Ok(<< "ERROR:", "PyPDF not installed." >>)
    ELSE Ok(<< "ERROR:", "Unsupported file type or no file uploaded." >>)

\* What a recording answers: the idea created (0: none), what was
\* submitted and the parser libraries of the deployment.
RecordReq(pk, pasted, uploaded_file, libs) ==
    [h |-> "record", pk |-> pk, pasted |-> pasted, uploaded_file |-> uploaded_file,
     libs |-> libs]

\* The name of an uploaded file: a base name and the extension.
FileName(uploaded_file) == << "upload", uploaded_file.ext >>

\* A submission read with the pasted text first.
Submitted_PastedFirst(pasted_content, uploaded_file, libs) ==
    IF pasted_content # << >>
    THEN Ok([raw_content |-> pasted_content, source_type |-> "Text",
             source_data |-> << "Pasted Content" >>])
    ELSE IF uploaded_file # NoFile
    THEN LET extracted == extract_text_from_file(uploaded_file, libs) IN
         IF ~extracted.ok THEN extracted
         ELSE Ok([raw_content |-> extracted.val, source_type |-> "File",
                  source_data |-> FileName(uploaded_file)])
    ELSE Ok([raw_content |-> << >>, source_type |-> None, source_data |-> << >>])

\* ContentRecordView.post, `if uploaded_file: ... elif pasted_content: ...`:
\* the content and the source of the submission, or the exception of the
\* extraction.
Submitted(pasted_content, uploaded_file, libs) ==
    IF uploaded_file # NoFile
    THEN LET extracted == extract_text_from_file(uploaded_file, libs) IN
         IF ~extracted.ok THEN extracted
         ELSE Ok([raw_content |-> extracted.val, source_type |-> "File",
                  source_data |-> FileName(uploaded_file)])
    ELSE IF pasted_content # << >>
    THEN Ok([raw_content |-> pasted_content, source_type |-> "Text",
             source_data |-> << "Pasted Content" >>])
    ELSE Ok([raw_content |-> << >>, source_type |-> None, source_data |-> << >>])

\* A test of the content that lets the extraction's errors through.
Rejected_OnlyEmpty(raw_content) == raw_content = << >>

\* `if not raw_content or raw_content.startswith("ERROR:")`
Rejected(raw_content) == raw_content = << >> \/ StartsWith(raw_content, "ERROR:")

\* The statements of a recording that keeps no source of pasted text.
RecordStatements_NoTextSource(pk, idea_name, s) ==
    << IdeaCreate(IdeaRow(idea_name, s.raw_content, "Draft", FALSE)) >>
    \o (IF s.source_type = "File"
        THEN << SourceCreate(SourceRow(pk, s.source_type, s.source_data)) >>
        ELSE << >>)
    \o << LogCreate(pk, << "Idea Recorded" >>) >>

\* The statements of the atomic block of ContentRecordView.post.
RecordStatements(pk, idea_name, s) ==
    << IdeaCreate(IdeaRow(idea_name, s.raw_content, "Draft", FALSE)) >>
    \o (IF s.source_data # << >>
        THEN << SourceCreate(SourceRow(pk, s.source_type, s.source_data)) >>
        ELSE << >>)
    \o << LogCreate(pk, << "Idea Recorded" >>) >>

\* ContentRecordView.post
Record(p, name, pasted, uploaded_file, libs, failAt) ==
    /\ Idle(p)
    /\ LET idea_name == Strip(name)
           pasted_content == Strip(pasted)
           submitted == Submitted(pasted_content, uploaded_file, libs)
       IN  IF ~submitted.ok
           THEN /\ failAt = 0
                /\ Finish(p, Uncaught(submitted.exc), RecordReq(0, pasted, uploaded_file, libs))
                /\ UNCHANGED << ideas, sources, breakdowns, logs, lastGen, images, files >>
           ELSE IF Rejected(submitted.val.raw_content)
           THEN /\ failAt = 0
                /\ Finish(p, Redirect("record", "error", "Submission failed", NoExc),
                          RecordReq(0, pasted, uploaded_file, libs))
                /\ UNCHANGED << ideas, sources, breakdowns, logs, lastGen, images, files >>
           ELSE /\ Len(ideas) < MaxIdeas
                /\ LogRoom({Len(ideas) + 1})
                /\ LET pk == Len(ideas) + 1
                       ws == RecordStatements(pk, idea_name, submitted.val)
                       run == RunAtomic(DB, ws, failAt)
                   IN  /\ failAt <= Len(ws) + 1
                       /\ Persist(ApplyAll(DB, AtomicExit(run.done, run.raised)))
                       /\ UNCHANGED lastGen
                       /\ IF run.raised
                          THEN Finish(p, Redirect("record", "error",
                                                  "A database error occurred", run.exc),
                                      RecordReq(0, pasted, uploaded_file, libs))
                          ELSE Finish(p, Redirect("detail", "success", "saved successfully", NoExc),
                                      RecordReq(pk, pasted, uploaded_file, libs))

\* ------------------------------------------------- generating a script
\* requests.post: the answer of the Ollama server, or no answer.
requests_post(r) ==
    CASE r.net = "refused" -> Raise(Exc("requests.ConnectionError", "requests.post", "refused"))
      [] r.net = "timeout" -> Raise(Exc("requests.Timeout", "requests.post", "timed out"))
      [] OTHER -> Ok(r)

\* Response.raise_for_status
raise_for_status(r) ==
    IF 400 <= r.status /\ r.status < 600
    THEN Raise(Exc("requests.HTTPError", "raise_for_status", "error status"))
    ELSE Ok(r)

\* Response.json: the body parsed; jsonErr is the class the installed
\* requests raises for a body that is no JSON.
response_json(r, jsonErr) ==
    LET parsed == json_loads(JStr(r.body)) IN
    IF parsed.ok THEN parsed ELSE Raise(Exc(jsonErr, "response.json", "Expecting value"))

\* The try block of step 4: the call, the two subscripts and json.loads.
\* The first exception raised leaves the block.
CallOllama(r, jsonErr) ==
    LET posted == requests_post(r) IN
    IF ~posted.ok THEN posted ELSE
    LET checked == raise_for_status(posted.val) IN
    IF ~checked.ok THEN checked ELSE
    LET ollama_data == response_json(checked.val, jsonErr) IN
    IF ~ollama_data.ok THEN ollama_data ELSE
    LET message == GetItem(ollama_data.val, "message") IN
    IF ~message.ok THEN message ELSE
    LET raw_json_string == GetItem(message.val, "content") IN
    IF ~raw_json_string.ok THEN raw_json_string ELSE
    json_loads(raw_json_string.val)

\* The except clauses of step 4, in their order: the notice of the first
\* clause the exception is an instance of, or none (it propagates).
GenerationNotice(exc) ==
    IF IsInstance(exc, "RequestException") THEN "could not reach"
    ELSE IF IsInstance(exc, "json.JSONDecodeError") THEN "invalid JSON"
    ELSE "uncaught"

\* The workers that run a generation request for idea pk.
Generating(pk) == { q \in Workers : pc[q] # "idle" /\ loc[q].h = "gen" /\ loc[q].pk = pk }

\* The workers whose generation request for idea pk holds a parsed payload.
WithPayload(pk) == { q \in Generating(pk) : pc[q] \in { "gen_lookup", "gen_save" } }

\* conc, had and startN are history: whether another generation request for
\* the same idea held a parsed payload while this one did, whether the idea
\* had a breakdown when the request loaded it, and how many generations
\* had committed for the idea by then.
GenLocals(p, pk, form) ==
    [h |-> "gen", willLog |-> {pk}, pk |-> pk, idea |-> ideas[pk], form |-> form,
     data |-> JNull, bd |-> 0,
     conc |-> FALSE, had |-> BreakdownsOf(DB, pk) # {}, startN |-> lastGen[pk].n]

\* wrote is history: the kinds of the statements the request committed.
GenReq(l, committed) == [h |-> "gen", pk |-> l.pk, wrote |-> Ops(committed)]

\* ScriptGenerationActionView.post, get_object_or_404 and the form fields
GenStart(p, pk, form) ==
    /\ Idle(p)
    /\ IF pk \in Objects(DB)
       THEN /\ LogRoom({pk})
            /\ Begin(p, "gen_call", GenLocals(p, pk, form))
       ELSE Finish(p, Http404, Req("gen", pk))
    /\ UNCHANGED << ideas, sources, breakdowns, logs, lastGen, images, files >>

\* A handler that marks the idea as scripted before it knows the payload.
GenCall_WritesStatus(p, r, jsonErr) ==
    /\ pc[p] = "gen_call"
    /\ LET res == CallOllama(r, jsonErr) IN
         /\ ~res.ok
         /\ GenerationNotice(res.exc) # "uncaught"
         /\ Finish(p, Redirect("detail", "error", GenerationNotice(res.exc), res.exc),
                   GenReq(loc[p], << >>))
    /\ Persist(Apply(DB, IdeaSave(loc[p].pk, [loc[p].idea EXCEPT !.status = "Script"])))
    /\ UNCHANGED lastGen

\* ScriptGenerationActionView.post, steps 2 to 4: the remote call
GenCall(p, r, jsonErr) ==
    /\ pc[p] = "gen_call"
    /\ LET res == CallOllama(r, jsonErr)
           notice == IF res.ok THEN "" ELSE GenerationNotice(res.exc)
           l == loc[p]
           rivals == WithPayload(l.pk) \ {p}
       IN  IF res.ok
           THEN /\ pc' = [pc EXCEPT ![p] = "gen_lookup"]
                /\ loc' = [q \in Workers |->
                             IF q = p THEN [l EXCEPT !.data = res.val, !.conc = rivals # {}]
                             ELSE IF q \in rivals THEN [loc[q] EXCEPT !.conc = TRUE]
                             ELSE loc[q]]
                /\ out' = NoOut
                /\ UNCHANGED << quota, call >>
           ELSE IF notice = "uncaught"
           THEN Finish(p, Uncaught(res.exc), GenReq(l, << >>))
           ELSE Finish(p, Redirect("detail", "error", notice, res.exc), GenReq(l, << >>))
    /\ UNCHANGED << ideas, sources, breakdowns, logs, lastGen, images, files >>

\* The transaction's first statement: idea.breakdown, the related row or
\* DoesNotExist (bd 0: a new ScriptBreakdown instance).
GenLookup(p) ==
    /\ pc[p] = "gen_lookup"
    /\ LET found == BreakdownsOf(DB, loc[p].pk) IN
       IF Cardinality(found) > 1
       THEN Finish(p, Redirect("detail", "error", "Database SAVE FAILED",
                               Exc("MultipleObjectsReturned", "idea.breakdown", "")),
                   GenReq(loc[p], << >>))
       ELSE Goto(p, "gen_save",
                 [loc[p] EXCEPT !.bd = IF found = {} THEN 0 ELSE CHOOSE b \in found : TRUE])
    /\ UNCHANGED << ideas, sources, breakdowns, logs, lastGen, images, files >>

\* The row a generation saves as the idea's breakdown.
GenBreakdownRow(pk, data, form) ==
    BreakdownRow(pk, data, form.llm_prompt_version, form.target_platform, form.global_mood,
                 IF form.target_audience = None THEN "N/A" ELSE form.target_audience)

\* The statements of a generation that moves only a draft to 'Script'.
GenStatements_OnlyFromDraft(l) ==
    << BreakdownSave(l.bd, GenBreakdownRow(l.pk, l.data, l.form)),
       IdeaSave(l.pk, [l.idea EXCEPT !.status = IF @ = "Draft" THEN "Script" ELSE @]),
       LogCreate(l.pk, << "Successfully generated and saved Script Breakdown from Ollama using",
                          l.form.llm_prompt_version >>) >>

\* The statements of step 5 after the lookup.
GenStatements(l) ==
    << BreakdownSave(l.bd, GenBreakdownRow(l.pk, l.data, l.form)),
       IdeaSave(l.pk, [l.idea EXCEPT !.status = "Script"]),
       LogCreate(l.pk, << "Successfully generated and saved Script Breakdown from Ollama using",
                          l.form.llm_prompt_version >>) >>

\* ScriptGenerationActionView.post, step 5: the atomic block and its except.
\* messages.success is called inside the block, before the commit.
GenSave(p, failAt) ==
    /\ pc[p] = "gen_save"
    /\ LET ws == GenStatements(loc[p])
           run == RunAtomic(DB, ws, failAt)
           committed == AtomicExit(run.done, run.raised)
       IN  /\ failAt <= Len(ws) + 1
           /\ Persist(ApplyAll(DB, committed))
           /\ lastGen' = IF run.raised THEN lastGen
                         ELSE [lastGen EXCEPT ![loc[p].pk] =
                                  [n |-> @.n + 1, data |-> loc[p].data,
                                   form |-> loc[p].form, conc |-> loc[p].conc,
                                   raced |-> @.n > loc[p].startN, had |-> loc[p].had]]
           /\ IF run.raised
              THEN Finish(p, [Redirect("detail", "error", "Database SAVE FAILED", run.exc)
                                EXCEPT !.earlier = IF run.done = ws
                                                   THEN << "created successfully" >>
                                                   ELSE << >>],
                          GenReq(loc[p], committed))
              ELSE Finish(p, Redirect("detail", "success", "created successfully", NoExc),
                          GenReq(loc[p], committed))

\* ---------------------------------------------------- trash and restore
\* A queryset of the admin changelist: the selected rows that pass the
\* changelist's filter on is_deleted ("all": no filter).
Matches(row, filter) ==
    CASE filter = "all" -> TRUE
      [] filter = "deleted" -> row.is_deleted = TRUE
      [] filter = "active" -> row.is_deleted = FALSE

QuerysetPks(db, sel, filter) ==
    { i \in sel \cap AllObjects(db) : Matches(db.ideas[i], filter) }

\* The rows of a set of primary keys in the changelist's order (-pk).
RECURSIVE Descending(_)
Descending(S) ==
    IF S = {} THEN << >>
    ELSE LET top == CHOOSE i \in S : \A j \in S : j <= i
         IN << top >> \o Descending(S \ {top})

Snapshot(db, pks) == [n \in 1..Len(pks) |-> [pk |-> pks[n], row |-> db.ideas[pks[n]]]]

SetOf(seq) == { seq[n] : n \in 1..Len(seq) }

\* ContentTrashView.post, get_object_or_404 on all_objects
TrashStart(p, pk) ==
    /\ Idle(p)
    /\ IF pk \in AllObjects(DB)
       THEN /\ LogRoom({pk})
            /\ Begin(p, "trash_save",
                     [h |-> "trash", willLog |-> {pk}, queue |-> Snapshot(DB, << pk >>)])
       ELSE Finish(p, Http404, Req("trash", pk))
    /\ UNCHANGED << ideas, sources, breakdowns, logs, lastGen, images, files >>

\* soft_delete_ideas: `for idea in queryset` loads the rows
AdminSoftDeleteStart(p, sel, filter) ==
    /\ Idle(p)
    /\ sel # {}
    /\ sel \subseteq AllObjects(DB)
    /\ LET pks == QuerysetPks(DB, sel, filter) IN
       IF pks = {}
       THEN Finish(p, Rendered("ideas soft-deleted"), Req("admin_trash", 0))
       ELSE /\ LogRoom(pks)
            /\ Begin(p, "trash_save",
                     [h |-> "admin_trash", willLog |-> pks,
                      queue |-> Snapshot(DB, Descending(pks))])
    /\ UNCHANGED << ideas, sources, breakdowns, logs, lastGen, images, files >>

\* idea.is_deleted = True; idea.save(), of the view and of the admin action:
\* the row is written with every field of the instance loaded before.
TrashSave(p, fault) ==
    /\ pc[p] = "trash_save"
    /\ LET cur == Head(loc[p].queue) IN
       IF fault
       THEN /\ Finish(p, Uncaught(DbFault("idea_save")), Req(loc[p].h, cur.pk))
            /\ UNCHANGED << ideas, sources, breakdowns, logs, lastGen, images, files >>
       ELSE /\ Persist(Apply(DB, IdeaSave(cur.pk, [cur.row EXCEPT !.is_deleted = TRUE])))
            /\ UNCHANGED lastGen
            /\ Goto(p, "trash_log", loc[p])

\* IdeaLog.objects.create of the view and of the admin action
TrashLog(p, fault) ==
    /\ pc[p] = "trash_log"
    /\ LET cur == Head(loc[p].queue)
           rest == Tail(loc[p].queue)
           action == IF loc[p].h = "trash" THEN << "Idea moved to Trash (Soft Delete)" >>
                     ELSE << "Soft-deleted content idea (Moved to Trash)." >>
       IN  IF fault
           THEN /\ Finish(p, Uncaught(DbFault("log_create")), Req(loc[p].h, cur.pk))
                /\ UNCHANGED << ideas, sources, breakdowns, logs, lastGen, images, files >>
           ELSE /\ Persist(Apply(DB, LogCreate(cur.pk, action)))
                /\ UNCHANGED lastGen
                /\ IF rest # << >>
                   THEN Goto(p, "trash_save",
                             [loc[p] EXCEPT !.queue = rest, !.willLog = @ \ {cur.pk}])
                   ELSE IF loc[p].h = "trash"
                   THEN Finish(p, Redirect("list", "warning", "moved to trash", NoExc),
                               Req("trash", cur.pk))
                   ELSE Finish(p, Rendered("ideas soft-deleted"), Req("admin_trash", cur.pk))

\* QuerySet.update(is_deleted=False): one UPDATE of the flag of the rows
\* the queryset matches.
QuerysetUpdate(rows, pks, value) ==
    [i \in 1..Len(rows) |-> IF i \in pks THEN [rows[i] EXCEPT !.is_deleted = value]
                            ELSE rows[i]]

\* restored, trashed and logged are history: the rows the UPDATE matched,
\* those of them it took out of the trash, and the rows a log row was
\* written for.
RestoreReq(l) ==
    [h |-> "restore", pk |-> 0, filter |-> l.filter, restored |-> l.restored,
     trashed |-> l.trashed, logged |-> l.logged]

\* restore_ideas: restored_count = queryset.update(is_deleted=False)
RestoreStart(p, sel, filter, fault) ==
    /\ Idle(p)
    /\ sel # {}
    /\ sel \subseteq AllObjects(DB)
    /\ IF fault
       THEN /\ Finish(p, Uncaught(DbFault("update")), Req("restore", 0))
            /\ UNCHANGED << ideas, sources, breakdowns, logs, lastGen, images, files >>
       ELSE /\ LogRoom(sel)
            /\ ideas' = QuerysetUpdate(ideas, QuerysetPks(DB, sel, filter), FALSE)
            /\ Begin(p, "restore_iter",
                     [h |-> "restore", willLog |-> sel, sel |-> sel, filter |-> filter,
                      queue |-> << >>,
                      restored |-> QuerysetPks(DB, sel, filter),
                      trashed |-> { i \in QuerysetPks(DB, sel, filter) : ideas[i].is_deleted },
                      logged |-> {}])
            /\ UNCHANGED << sources, breakdowns, logs, lastGen, images, files >>

\* restore_ideas: `for idea in queryset` runs the queryset's query again
RestoreIter(p) ==
    /\ pc[p] = "restore_iter"
    /\ LET pks == QuerysetPks(DB, loc[p].sel, loc[p].filter) IN
       IF pks = {}
       THEN Finish(p, Rendered("successfully restored from trash"), RestoreReq(loc[p]))
       ELSE Goto(p, "restore_log",
                 [loc[p] EXCEPT !.queue = Descending(pks), !.willLog = pks])
    /\ UNCHANGED << ideas, sources, breakdowns, logs, lastGen, images, files >>

\* restore_ideas: IdeaLog.objects.create for one row of the loop
RestoreLog(p, fault) ==
    /\ pc[p] = "restore_log"
    /\ LET cur == Head(loc[p].queue)
           rest == Tail(loc[p].queue)
       IN  IF fault
           THEN /\ Finish(p, Uncaught(DbFault("log_create")), RestoreReq(loc[p]))
                /\ UNCHANGED << ideas, sources, breakdowns, logs, lastGen, images, files >>
           ELSE /\ Persist(Apply(DB, LogCreate(cur, << "Idea restored from Trash via Admin" >>)))
                /\ UNCHANGED lastGen
                /\ IF rest # << >>
                   THEN Goto(p, "restore_log",
                             [loc[p] EXCEPT !.queue = rest, !.willLog = @ \ {cur},
                                            !.logged = @ \cup {cur}])
                   ELSE Finish(p, Rendered("successfully restored from trash"),
                               RestoreReq([loc[p] EXCEPT !.logged = @ \cup {cur}]))

\* ------------------------------------------------------ editing an idea
\* form.changed_data: the form's fields whose value differs from the
\* instance's, in the form's field order.
ChangedData(row, form) ==
    (IF form.idea_name # row.idea_name THEN << "idea_name" >> ELSE << >>)
    \o (IF form.raw_content # row.raw_content THEN << "raw_content" >> ELSE << >>)
    \o (IF form.status # row.status THEN << "status" >> ELSE << >>)

\* ContentUpdateView: get_object on the default manager, then the form is
\* validated and sets the instance's fields
EditStart(p, pk, form) ==
    /\ Idle(p)
    /\ IF pk \notin Objects(DB)
       THEN Finish(p, Http404, Req("edit", pk))
       ELSE IF form.raw_content = << >> \/ form.status \notin StatusChoices
       THEN Finish(p, Rendered("form errors"), Req("edit", pk))
       ELSE /\ LogRoom({pk})
            /\ Begin(p, "edit_reload",
                     [h |-> "edit", willLog |-> {pk}, pk |-> pk,
                      idea |-> [ideas[pk] EXCEPT !.idea_name = form.idea_name,
                                                 !.raw_content = form.raw_content,
                                                 !.status = form.status],
                      changed |-> ChangedData(ideas[pk], form),
                      old_status |-> ""])
    /\ UNCHANGED << ideas, sources, breakdowns, logs, lastGen, images, files >>

\* form_valid: old_idea = ContentIdea.objects.get(pk=...)
EditReload(p) ==
    /\ pc[p] = "edit_reload"
    /\ IF loc[p].pk \in Objects(DB)
       THEN Goto(p, "edit_save", [loc[p] EXCEPT !.old_status = ideas[loc[p].pk].status])
       ELSE Finish(p, Uncaught(Exc("DoesNotExist", "objects.get", "")), Req("edit", loc[p].pk))
    /\ UNCHANGED << ideas, sources, breakdowns, logs, lastGen, images, files >>

\* The statements of form_valid's atomic block: the form's save and, when a
\* field changed, the log row.
EditStatements(l) ==
    LET statusChanged == "status" \in SetOf(l.changed)
        others == SelectSeq(l.changed, LAMBDA f : f # "status")
        change_desc == (IF statusChanged
                        THEN << "Status changed from", l.old_status, "to", l.idea.status >>
                        ELSE << >>) \o others
    IN  << IdeaSave(l.pk, l.idea) >>
        \o (IF l.changed # << >>
            THEN << LogCreate(l.pk, << "Updated:" >> \o change_desc) >>
            ELSE << >>)

\* form_valid: the atomic block; no except clause surrounds it
EditSave(p, failAt) ==
    /\ pc[p] = "edit_save"
    /\ LET ws == EditStatements(loc[p])
           run == RunAtomic(DB, ws, failAt)
       IN  /\ failAt <= Len(ws) + 1
           /\ Persist(ApplyAll(DB, AtomicExit(run.done, run.raised)))
           /\ UNCHANGED lastGen
           /\ IF run.raised
              THEN Finish(p, Uncaught(run.exc), Req("edit", loc[p].pk))
              ELSE Finish(p, Redirect("detail", "success", "updated successfully", NoExc),
                          Req("edit", loc[p].pk))

\* ------------------------------------------------------ storyboard images
\* A SceneImage row as the model keeps it (prompts and parameters are not
\* kept). A file field holds a name, the empty name when it has no file.
ImageRow(idea, scene_index, image_file, trash_file, is_deleted) ==
    [idea |-> idea, scene_index |-> scene_index, image_file |-> image_file,
     trash_file |-> trash_file, is_deleted |-> is_deleted]

\* The empty name of a file field without a file.
NoName == << >>

\* A file of a storage: the media storage of image_file, or the trash
\* storage (fs) of trash_file.
Stored(store, name) == [store |-> store, name |-> name]

\* generate_storyboard_image_mock: the path it returns; it writes no file.
generate_storyboard_image_mock(scene_desc, scene_index) ==
    << "storyboards", "scene", scene_desc, scene_index >>

\* Storage.get_available_name: the name, or the name with a suffix when a
\* file of that name exists (n suffixes tried so far).
RECURSIVE get_available_name(_, _, _)
get_available_name(store, name, n) ==
    LET candidate == IF n = 0 THEN name ELSE name \o << "_", n >> IN
    IF Stored(store, candidate) \in files
    THEN get_available_name(store, name, n + 1)
    ELSE candidate

\* trash_file.save(f"deleted_{self.image_file.name}", f): the name the copy
\* is stored under in the trash storage (upload_to 'trash/').
TrashName(name) == get_available_name("trash", << "trash", "deleted_" >> \o name, 0)

\* seq[index] of Python with an int index that is not negative.
GetIndex(obj, index) ==
    CASE obj.k = "list" ->
            IF index < Len(obj.items) THEN Ok(obj.items[index + 1])
            ELSE Raise(Exc("IndexError", "subscript", "list index out of range"))
      [] obj.k = "obj" -> Raise(Exc("KeyError", "subscript", "index"))
      [] obj.k = "str" ->
            IF index < Len(obj.s) THEN Ok(JStr(<< obj.s[index + 1] >>))
            ELSE Raise(Exc("IndexError", "subscript", "string index out of range"))
      [] OTHER -> Raise(Exc("TypeError", "subscript", "not subscriptable"))

\* scene_data.get('description', 'Scene description not available.')
DictGet(obj, key, default) ==
    IF obj.k = "obj"
    THEN Ok(IF key \in DOMAIN obj.fields THEN obj.fields[key] ELSE default)
    ELSE Raise(Exc("AttributeError", "get", "object has no attribute 'get'"))

\* ImageGenerationView.post, step 2: the scene's description, read from
\* idea.breakdown.breakdown_data['script_breakdown']['scenes'][scene_index].
SceneDescription(db, pk, scene_index) ==
    LET found == BreakdownsOf(db, pk) IN
    IF found = {}
    THEN Raise(Exc("RelatedObjectDoesNotExist", "idea.breakdown", "ContentIdea has no breakdown."))
    ELSE
    LET data == db.breakdowns[CHOOSE b \in found : TRUE].breakdown_data
        script_breakdown == GetItem(data, "script_breakdown")
    IN
    IF ~script_breakdown.ok THEN script_breakdown ELSE
    LET scenes == GetItem(script_breakdown.val, "scenes") IN
    IF ~scenes.ok THEN scenes ELSE
    LET scene_data == GetIndex(scenes.val, scene_index) IN
    IF ~scene_data.ok THEN scene_data ELSE
    DictGet(scene_data.val, "description", JStr(<< "Scene description not available." >>))

\* What an image generation answers: the idea and the scene addressed.
ImgGenReq(pk, scene_index) == [h |-> "img_gen", pk |-> pk, scene_index |-> scene_index]

\* An except clause that lets an index out of range through.
SceneLookupCaught_NoIndexError(exc) ==
    \/ IsInstance(exc, "AttributeError")
    \/ IsInstance(exc, "KeyError")

\* except (AttributeError, KeyError, IndexError) of ImageGenerationView.post
SceneLookupCaught(exc) ==
    \/ IsInstance(exc, "AttributeError")
    \/ IsInstance(exc, "KeyError")
    \/ IsInstance(exc, "IndexError")

\* ImageGenerationView.post. stored: whether the media storage holds a file
\* under the path of the new row (the mock generator writes none).
ImageGenerate(p, pk, scene_index, stored, fault) ==
    /\ Idle(p)
    /\ IF pk \notin Objects(DB)
       THEN /\ Finish(p, Http404, ImgGenReq(pk, scene_index))
            /\ UNCHANGED << images, files >>
       ELSE LET desc == SceneDescription(DB, pk, scene_index) IN
            IF ~desc.ok
            THEN /\ IF SceneLookupCaught(desc.exc)
                    THEN Finish(p, Redirect("detail", "error", "breakdown data not found",
                                            desc.exc), ImgGenReq(pk, scene_index))
                    ELSE Finish(p, Uncaught(desc.exc), ImgGenReq(pk, scene_index))
                 /\ UNCHANGED << images, files >>
            ELSE IF fault
            THEN /\ Finish(p, Uncaught(DbFault("image_create")), ImgGenReq(pk, scene_index))
                 /\ UNCHANGED << images, files >>
            ELSE LET path == generate_storyboard_image_mock(desc.val, scene_index) IN
                 /\ Len(images) < MaxImages
                 /\ images' = Append(images, ImageRow(pk, scene_index, path, NoName, FALSE))
                 /\ files' = IF stored THEN files \cup { Stored("media", path) } ELSE files
                 /\ Finish(p, Redirect("detail", "success", "Image generated successfully",
                                       NoExc), ImgGenReq(pk, scene_index))
    /\ UNCHANGED << ideas, sources, breakdowns, logs, lastGen >>

\* What an image soft-delete answers: the image addressed, whether
\* soft_delete found it active, and whether the media storage held its
\* primary file when the request began.
ImgReq(l) == [h |-> "img_delete", pk |-> l.id, active |-> TRUE, present |-> l.present]
ImgNoReq(id) == [h |-> "img_delete", pk |-> id, active |-> FALSE, present |-> FALSE]

\* The except clause of ImageSoftDeleteView.post: the failure is reported
\* and the request redirects to the idea's detail view.
ImgFailed(p, exc) ==
    Finish(p, Redirect("detail", "error", "Failed to soft delete image", exc), ImgReq(loc[p]))

\* The files the trash storage holds, and the copies the running requests
\* can still add.
TrashFiles == { f \in files : f.store = "trash" }
Copying == { q \in Workers : pc[q] = "img_copy" }

\* ImageSoftDeleteView.post: get_object_or_404(SceneImage) and the test of
\* soft_delete, `if not self.is_deleted`.
ImgDeleteStart(p, id) ==
    /\ Idle(p)
    /\ IF id \notin 1..Len(images)
       THEN Finish(p, Http404, ImgNoReq(id))
       ELSE IF images[id].is_deleted
       THEN Finish(p, Redirect("detail", "info", "Image moved to trash", NoExc), ImgNoReq(id))
       ELSE /\ Cardinality(TrashFiles) + Cardinality(Copying) < MaxTrashFiles
            /\ Begin(p, "img_copy",
                     [h |-> "img_delete", willLog |-> {}, id |-> id, image |-> images[id],
                      present |-> Stored("media", images[id].image_file) \in files])
    /\ UNCHANGED << ideas, sources, breakdowns, logs, lastGen, images, files >>

\* The ways the copy to the trash storage goes: it completes, the trash
\* storage refuses to create the file, or the write breaks off and leaves
\* an incomplete file behind.
CopyFaults == { "none", "create", "write" }

\* The stored files after a copy that removed the primary file first.
AfterFailedCopy_UnlinksFirst(fs, image, name, fault) ==
    (IF fault = "write" THEN fs \cup { Stored("trash", name) } ELSE fs)
        \ { Stored("media", image.image_file) }

\* The stored files after a copy to the trash storage failed: the media
\* storage is as it was, soft_delete has not reached image_file.delete.
AfterFailedCopy(fs, image, name, fault) ==
    IF fault = "write" THEN fs \cup { Stored("trash", name) } ELSE fs

\* The instance after a delete of the file that kept the name.
FieldFileDelete_KeepsName(image) == image

\* FieldFile.delete(save=False): the name of the instance's field is cleared.
FieldFileDelete(image) == [image EXCEPT !.image_file = NoName]

\* soft_delete, step 1, the storage's part: image_file.open('rb') and the
\* copy of the bytes to the trash storage.
ImgCopy(p, fault) ==
    /\ pc[p] = "img_copy"
    /\ LET image == loc[p].image
           name == TrashName(image.image_file)
       IN  IF image.image_file = NoName
           THEN /\ ImgFailed(p, Exc("ValueError", "image_file.open",
                                    "The 'image_file' attribute has no file associated with it."))
                /\ UNCHANGED files
           ELSE IF Stored("media", image.image_file) \notin files
           THEN /\ ImgFailed(p, Exc("FileNotFoundError", "image_file.open",
                                    "No such file or directory"))
                /\ UNCHANGED files
           ELSE IF fault # "none"
           THEN /\ ImgFailed(p, Exc("OSError", "trash_file.save", "No space left on device"))
                /\ files' = AfterFailedCopy(files, image, name, fault)
           ELSE /\ files' = files \cup { Stored("trash", name) }
                /\ Goto(p, "img_trash_save", [loc[p] EXCEPT !.image.trash_file = name])
    /\ UNCHANGED << ideas, sources, breakdowns, logs, lastGen, images >>

\* soft_delete, step 1, the row's part: FieldFile.save ends with
\* instance.save(), which writes every field of the instance.
ImgTrashSave(p, fault) ==
    /\ pc[p] = "img_trash_save"
    /\ IF fault
       THEN /\ ImgFailed(p, DbFault("trash_file.save"))
            /\ UNCHANGED images
       ELSE /\ images' = ModelSave(images, loc[p].id, loc[p].image)
            /\ Goto(p, "img_unlink", loc[p])
    /\ UNCHANGED << ideas, sources, breakdowns, logs, lastGen, files >>

\* soft_delete, step 2: image_file.delete(save=False) removes the file from
\* the media storage (a missing file is no error) and clears the name of
\* the instance.
ImgUnlink(p, fault) ==
    /\ pc[p] = "img_unlink"
    /\ IF fault
       THEN /\ ImgFailed(p, Exc("PermissionError", "image_file.delete", "Permission denied"))
            /\ UNCHANGED files
       ELSE /\ files' = files \ { Stored("media", loc[p].image.image_file) }
            /\ Goto(p, "img_flag_save", [loc[p] EXCEPT !.image = FieldFileDelete(@)])
    /\ UNCHANGED << ideas, sources, breakdowns, logs, lastGen, images >>

\* soft_delete, step 3: is_deleted = True and save(), every field.
ImgFlagSave(p, fault) ==
    /\ pc[p] = "img_flag_save"
    /\ IF fault
       THEN /\ ImgFailed(p, DbFault("image_save"))
            /\ UNCHANGED images
       ELSE /\ images' = ModelSave(images, loc[p].id, [loc[p].image EXCEPT !.is_deleted = TRUE])
            /\ Finish(p, Redirect("detail", "info", "Image moved to trash", NoExc),
                      ImgReq(loc[p]))
    /\ UNCHANGED << ideas, sources, breakdowns, logs, lastGen, files >>

\* ------------------------------------------------------ editing a scene
\* len(obj) of Python.
PyLen(obj) ==
    CASE obj.k = "list" -> Ok(Len(obj.items))
      [] obj.k = "obj" -> Ok(Cardinality(DOMAIN obj.fields))
      [] obj.k = "str" -> Ok(Len(obj.s))
      [] OTHER -> Raise(Exc("TypeError", "len", "object has no len()"))

\* obj[key] = value with a str key: a dict takes the item, nothing else does.
SetItem(obj, key, value) ==
    IF obj.k = "obj"
    THEN Ok(JObj([f \in DOMAIN obj.fields \cup { key } |->
                     IF f = key THEN value ELSE obj.fields[f]]))
    ELSE Raise(Exc("TypeError", "item assignment", "does not support item assignment"))

\* The payload with the scene at scene_index replaced (the scenes are a
\* list of the payload's 'script_breakdown' object here).
WithScene(data, scene_index, scene) ==
    [data EXCEPT !.fields["script_breakdown"].fields["scenes"].items[scene_index + 1] = scene]

\* The try block of SceneEditView.post up to the save: the payload with the
\* scene's description replaced (edited), the payload as it is for an index
\* that is not in the scenes (edited FALSE), or the first exception raised.
EditedPayload(db, pk, scene_index, new_description) ==
    LET found == BreakdownsOf(db, pk) IN
    IF found = {}
    THEN Raise(Exc("RelatedObjectDoesNotExist", "idea.breakdown", "ContentIdea has no breakdown."))
    ELSE
    LET data == db.breakdowns[CHOOSE b \in found : TRUE].breakdown_data
        script_breakdown == GetItem(data, "script_breakdown")
    IN
    IF ~script_breakdown.ok THEN script_breakdown ELSE
    LET scenes == GetItem(script_breakdown.val, "scenes") IN
    IF ~scenes.ok THEN scenes ELSE
    LET length == PyLen(scenes.val) IN
    IF ~length.ok THEN length ELSE
    IF ~(scene_index < length.val) THEN Ok([edited |-> FALSE, data |-> data]) ELSE
    LET scene == GetIndex(scenes.val, scene_index) IN
    IF ~scene.ok THEN scene ELSE
    LET changed == SetItem(scene.val, "description", JStr(new_description)) IN
    IF ~changed.ok THEN changed ELSE
    Ok([edited |-> TRUE, data |-> WithScene(data, scene_index, changed.val)])

\* What a scene edit answers: the idea and the scene addressed, and whether
\* the idea had a breakdown when the request read it.
SceneReq(pk, scene_index, had) ==
    [h |-> "scene_edit", pk |-> pk, scene_index |-> scene_index, had |-> had]

\* SceneEditView.post up to breakdown.save(): get_object_or_404 on the
\* default manager, the test of the description, the read of the breakdown
\* and the change of the scene in memory.
SceneEditStart(p, pk, scene_index, new_description) ==
    /\ Idle(p)
    /\ LET had == BreakdownsOf(DB, pk) # {}
           req == SceneReq(pk, scene_index, had)
           edit == EditedPayload(DB, pk, scene_index, Strip(new_description))
       IN  IF pk \notin Objects(DB)
           THEN Finish(p, Http404, req)
           ELSE IF Strip(new_description) = << >>
           THEN Finish(p, Redirect("detail", "error", "Scene description cannot be empty", NoExc),
                       req)
           ELSE IF ~edit.ok
           THEN Finish(p, Redirect("detail", "error", "Failed to edit scene", edit.exc), req)
           ELSE IF ~edit.val.edited
           THEN Finish(p, Redirect("detail", "error", "Invalid scene index provided", NoExc), req)
           ELSE Begin(p, "scene_save",
                      [h |-> "scene_edit", willLog |-> {}, pk |-> pk,
                       scene_index |-> scene_index, had |-> had,
                       bd |-> CHOOSE b \in BreakdownsOf(DB, pk) : TRUE,
                       breakdown |-> [breakdowns[CHOOSE b \in BreakdownsOf(DB, pk) : TRUE]
                                        EXCEPT !.breakdown_data = edit.val.data]])
    /\ UNCHANGED << ideas, sources, breakdowns, logs, lastGen, images, files >>

\* SceneEditView.post, breakdown.save(): every field of the instance is
\* written; an exception is caught by the view's except clause.
SceneEditSave(p, fault) ==
    /\ pc[p] = "scene_save"
    /\ LET req == SceneReq(loc[p].pk, loc[p].scene_index, loc[p].had) IN
       IF fault
       THEN /\ Finish(p, Redirect("detail", "error", "Failed to edit scene",
                                  DbFault("breakdown.save")), req)
            /\ UNCHANGED breakdowns
       ELSE /\ breakdowns' = ModelSave(breakdowns, loc[p].bd, loc[p].breakdown)
            /\ Finish(p, Redirect("detail", "success", "description updated successfully", NoExc),
                      req)
    /\ UNCHANGED << ideas, sources, logs, lastGen, images, files >>

\* ------------------------------------------------------- prompt building
\* The prompt templates as the text str.format reads: "{" and "}" are the
\* brace characters, the token between a single pair of braces is a field
\* name, every other token is a run of text without braces.
PROMPT_V1 ==
    << "Role: Senior Content Strategist and Structural Analyst.",
       "video for", "{", "target_platform", "}",
       "IDEA NAME:", "{", "idea_name", "}",
       "GLOBAL MOOD:", "{", "global_mood", "}",
       "RAW CONTENT:", "{", "raw_content", "}",
       "Output Format: The JSON structure should look like:",
       "{", "{", "'script_breakdown':", "{", "{", "'scenes': [...]", "}", "}", "}", "}",
       "Stop Conditions: End output immediately after the closing", "}", "}",
       "of the JSON object." >>

PROMPT_V2 ==
    << "Role: Expert Film Editor specializing in content pacing and viewer retention.",
       "The content is intended for", "{", "target_platform", "}",
       "IDEA NAME:", "{", "idea_name", "}",
       "GLOBAL MOOD:", "{", "global_mood", "}",
       "RAW CONTENT:", "{", "raw_content", "}",
       "Reasoning: Pacing is critical for the", "{", "target_platform", "}",
       "Stop Conditions: Provide only the JSON object." >>

PROMPT_V3 ==
    << "Role: Creative Director and Narrative Architect.",
       "a compelling story for", "{", "target_platform", "}",
       "aligned with the requested", "{", "global_mood", "}",
       "IDEA NAME:", "{", "idea_name", "}",
       "GLOBAL MOOD:", "{", "global_mood", "}",
       "RAW CONTENT:", "{", "raw_content", "}",
       "Reasoning: The breakdown must align with the", "{", "global_mood", "}",
       "Stop Conditions: Halt generation immediately after the complete JSON structure." >>

\* format(value, ''): the str of a value, 'None' for None.
FormatValue(v) == IF v.k = "null" THEN << "None" >> ELSE v.s

\* str.format(**kwargs) from token i on: "{{" and "}}" are a literal brace,
\* "{name}" is replaced by the value of the keyword argument (KeyError
\* without one) and is not read again; a single brace is a ValueError.
RECURSIVE StrFormat(_, _, _, _)
StrFormat(t, i, kwargs, acc) ==
    IF i > Len(t) THEN Ok(acc)
    ELSE IF t[i] = "{"
    THEN IF i + 1 > Len(t)
         THEN Raise(Exc("ValueError", "format", "Single '{' encountered in format string"))
         ELSE IF t[i + 1] = "{" THEN StrFormat(t, i + 2, kwargs, Append(acc, "{"))
         ELSE IF i + 2 > Len(t) \/ t[i + 2] # "}"
         THEN Raise(Exc("ValueError", "format", "expected '}' before end of string"))
         ELSE IF t[i + 1] \notin DOMAIN kwargs
         THEN Raise(Exc("KeyError", "format", t[i + 1]))
         ELSE StrFormat(t, i + 3, kwargs, acc \o FormatValue(kwargs[t[i + 1]]))
    ELSE IF t[i] = "}"
    THEN IF i + 1 <= Len(t) /\ t[i + 1] = "}"
         THEN StrFormat(t, i + 2, kwargs, Append(acc, "}"))
         ELSE Raise(Exc("ValueError", "format", "Single '}' encountered in format string"))
    ELSE StrFormat(t, i + 1, kwargs, Append(acc, t[i]))

\* The system message of every prompt.
system_prompt == << "You are an expert script structure analyst." >>

\* A chat message of the Ollama API.
Message(role, content) == [role |-> role, content |-> content]

\* The template of a variant identifier that rejects an unknown one.
SelectTemplate_NoFallback(version) ==
    IF version.k = "str" /\ version.s = << "V1_Analytical" >> THEN PROMPT_V1
    ELSE IF version.k = "str" /\ version.s = << "V2_Pacing" >> THEN PROMPT_V2
    ELSE IF version.k = "str" /\ version.s = << "V3_Narrative" >> THEN PROMPT_V3
    ELSE << "{", "base_template", "}" >>

\* The if/elif chain of get_llama_prompt.
SelectTemplate(version) ==
    IF version.k = "str" /\ version.s = << "V1_Analytical" >> THEN PROMPT_V1
    ELSE IF version.k = "str" /\ version.s = << "V2_Pacing" >> THEN PROMPT_V2
    ELSE IF version.k = "str" /\ version.s = << "V3_Narrative" >> THEN PROMPT_V3
    ELSE PROMPT_V1

get_llama_prompt(version, idea_name, global_mood, raw_content, target_platform) ==
    LET base_template == SelectTemplate(version)
        user_prompt == StrFormat(base_template, 1,
                                 [idea_name |-> idea_name, global_mood |-> global_mood,
                                  raw_content |-> raw_content,
                                  target_platform |-> target_platform], << >>)
    IN  IF ~user_prompt.ok THEN user_prompt
        ELSE Ok(<< Message("system", system_prompt), Message("user", user_prompt.val) >>)

\* The variables a function applied by itself cannot touch.
Untouched == << ideas, sources, breakdowns, logs, lastGen, pc, loc, out, quota, images, files >>

\* get_llama_prompt applied by itself.
PromptCall(version, idea_name, global_mood, raw_content, target_platform) ==
    /\ call' = [fn |-> "get_llama_prompt",
                args |-> << version, idea_name, global_mood, raw_content, target_platform >>,
                result |-> get_llama_prompt(version, idea_name, global_mood, raw_content,
                                            target_platform)]
    /\ UNCHANGED Untouched

\* extract_text_from_file applied by itself.
ExtractCall(uploaded_file, libs) ==
    /\ call' = [fn |-> "extract_text_from_file",
                args |-> << uploaded_file, libs >>,
                result |-> extract_text_from_file(uploaded_file, libs)]
    /\ UNCHANGED Untouched

\* ---------------------------------------------------------------- inputs
\* The inputs the requests of the model are made with.
IdeaNames == { << "Idea" >> }
PastedTexts == { << >>, << "Hello", "World" >> }
Uploads == { NoFile }
Libs == { {"docx", "pypdf"} }

GenForms ==
    { [target_platform |-> "YouTube", global_mood |-> "Serious",
       llm_prompt_version |-> "V1_Analytical", target_audience |-> None],
      [target_platform |-> "TikTok", global_mood |-> "Funny",
       llm_prompt_version |-> "V2_Pacing", target_audience |-> "Teens"] }

Body(content) == << "{", "'message'", ":", "{", "'content'", ":" >> \o content \o << "}", "}" >>

\* The answers of the Ollama server, and the failures to answer.
Responses ==
    { [net |-> "refused", status |-> 0, body |-> << >>],
      [net |-> "timeout", status |-> 0, body |-> << >>],
      [net |-> "ok", status |-> 500, body |-> << "<html>" >>],
      [net |-> "ok", status |-> 200, body |-> << "<html>" >>],
      [net |-> "ok", status |-> 200, body |-> << "{", "'error'", ":", "1", "}" >>],
      [net |-> "ok", status |-> 200, body |-> << "{", "'message'", ":", "{", "}", "}" >>],
      [net |-> "ok", status |-> 200, body |-> << "[", "]" >>],
      [net |-> "ok", status |-> 200, body |-> Body(<< "null" >>)],
      [net |-> "ok", status |-> 200, body |-> Body(ContentOne)],
      [net |-> "ok", status |-> 200, body |-> Body(<< "'<ContentGarbage>'" >>)],
      [net |-> "ok", status |-> 200, body |-> Body(<< "'<ContentOne>'" >>)],
      [net |-> "ok", status |-> 200, body |-> Body(<< "'<ContentTwo>'" >>)] }

\* What Response.json raises for a body that is no JSON: requests' own
\* JSONDecodeError since requests 2.27, the json module's before.
ResponseJsonErrors == { "requests.JSONDecodeError", "json.JSONDecodeError" }

EditForms ==
    { [idea_name |-> << "Idea" >>, raw_content |-> << "Hello", "World" >>, status |-> "Research"],
      [idea_name |-> << "Renamed" >>, raw_content |-> << "Edited" >>, status |-> "Draft"] }

\* The edit form submitted with each workflow status, the idea's other
\* fields as recorded.
StatusForms ==
    { [idea_name |-> << "Idea" >>, raw_content |-> << "Hello", "World" >>, status |-> s] :
        s \in StatusChoices }

Filters == { "all", "deleted", "active" }

\* The arguments of get_llama_prompt: the form's variant (a known one, an
\* unknown one, the empty one, none), the idea's name (None when the idea
\* has none), the mood, the content (with braces of its own) and the platform.
Versions ==
    { JStr(<< "V1_Analytical" >>), JStr(<< "V2_Pacing" >>), JStr(<< "V3_Narrative" >>),
      JStr(<< "V9_Unknown" >>), JStr(<< >>), JNull }
PromptNames == { JStr(<< "Idea" >>), JNull }
Moods == { JStr(<< "Serious" >>), JStr(<< "Funny" >>), JNull }
PromptContents == { JStr(<< "Hello", "World" >>), JStr(<< "{", "idea_name", "}" >>), JStr(<< "}" >>) }
Platforms == { JStr(<< "YouTube" >>), JNull }

\* The uploaded files extract_text_from_file is applied to, and the
\* libraries the deployment has installed.
Extensions == { ".txt", ".TXT", ".docx", ".pdf", ".png", "" }
UploadedFiles ==
    { [ext |-> e, size |-> n, utf8 |-> u, parses |-> ps, text |-> t] :
        e \in Extensions, n \in { 0, 1 }, u \in BOOLEAN, ps \in BOOLEAN,
        t \in { << >>, << "Hello", "World" >>, << "ERROR:", "is", "my", "title" >> } }
Installed == SUBSET { "docx", "pypdf" }

\* The submissions of the record form: the pasted text (none, blank, a
\* text, a text that starts like an error), the uploaded file (none, text
\* files, an empty file, a broken Word file, a Word file without text, a
\* text file that is not UTF-8, an image) and the deployment's libraries.
SubmittedNames == { << "Idea" >> }
SubmittedTexts == { << >>, << " " >>, << "Hello", "World" >>, << "ERROR:", "pasted" >> }
TextFile(text) == [ext |-> ".txt", size |-> 1, utf8 |-> TRUE, parses |-> TRUE, text |-> text]
SubmittedFiles ==
    { NoFile,
      TextFile(<< "From", "file" >>),
      TextFile(<< "ERROR:", "is", "my", "title" >>),
      [ext |-> ".txt", size |-> 0, utf8 |-> TRUE, parses |-> TRUE, text |-> << >>],
      [ext |-> ".txt", size |-> 1, utf8 |-> FALSE, parses |-> TRUE, text |-> << >>],
      [ext |-> ".docx", size |-> 1, utf8 |-> FALSE, parses |-> FALSE, text |-> << >>],
      [ext |-> ".docx", size |-> 1, utf8 |-> FALSE, parses |-> TRUE, text |-> << >>],
      [ext |-> ".docx", size |-> 1, utf8 |-> FALSE, parses |-> TRUE, text |-> << "From", "Word" >>],
      [ext |-> ".png", size |-> 1, utf8 |-> FALSE, parses |-> FALSE, text |-> << >>] }

\* The answers of the Ollama server whose message content is a JSON text
\* of every shape, and one failure to answer.
PayloadContents ==
    { "'<ContentOne>'", "'<ContentTwo>'", "'<ContentList>'", "'<ContentNum>'",
      "'<ContentStr>'", "'<ContentNull>'", "'<ContentInnerList>'", "'<ContentInnerStr>'",
      "'<ContentInnerNull>'", "'<ContentNoScenes>'", "'<ContentScenesNum>'" }
PayloadResponses ==
    { [net |-> "ok", status |-> 200, body |-> Body(<< c >>)] : c \in PayloadContents }
        \cup { [net |-> "refused", status |-> 0, body |-> << >>] }

\* An answer of the Ollama server with a script breakdown, and no answer.
FewResponses ==
    { [net |-> "ok", status |-> 200, body |-> Body(<< "'<ContentOne>'" >>)],
      [net |-> "refused", status |-> 0, body |-> << >>] }

\* The new_description of the scene edit form.
Descriptions == { << >>, << "Edited" >> }

\* The scene_index of the URL.
SceneIndexes == { 0, 2 }

\* ------------------------------------------------------------------ next
\* A request of the recorder and of script generation.
GenRequests(p) ==
    \/ \E name \in IdeaNames, pasted \in PastedTexts, f \in Uploads,
          libs \in Libs, failAt \in 0..4 :
            Record(p, name, pasted, f, libs, failAt)
    \/ \E pk \in IdeaIds, form \in GenForms : GenStart(p, pk, form)
    \/ \E r \in Responses, jsonErr \in ResponseJsonErrors : GenCall(p, r, jsonErr)
    \/ GenLookup(p)
    \/ \E failAt \in 0..4 : GenSave(p, failAt)

\* A request of the trash, of the admin actions and of the edit form.
OtherRequests(p) ==
    \/ \E pk \in IdeaIds : TrashStart(p, pk)
    \/ \E sel \in SUBSET IdeaIds, filter \in Filters : AdminSoftDeleteStart(p, sel, filter)
    \/ \E fault \in BOOLEAN : TrashSave(p, fault)
    \/ \E fault \in BOOLEAN : TrashLog(p, fault)
    \/ \E sel \in SUBSET IdeaIds, filter \in Filters, fault \in BOOLEAN :
            RestoreStart(p, sel, filter, fault)
    \/ RestoreIter(p)
    \/ \E fault \in BOOLEAN : RestoreLog(p, fault)
    \/ \E pk \in IdeaIds, form \in EditForms : EditStart(p, pk, form)
    \/ EditReload(p)
    \/ \E failAt \in 0..3 : EditSave(p, failAt)

Next == \E p \in Workers : GenRequests(p) \/ OtherRequests(p)

Spec == Init /\ [][Next]_vars

\* Recording and script generation alone, over longer runs.
InitGen == Fresh /\ quota = MaxGenLog

NextGen == \E p \in Workers : GenRequests(p)

SpecGen == InitGen /\ [][NextGen]_vars

\* A request of the storyboard: image generation and image soft-delete.
ImageRequests(p) ==
    \/ \E pk \in IdeaIds, scene_index \in SceneIndexes, stored \in BOOLEAN, fault \in BOOLEAN :
            ImageGenerate(p, pk, scene_index, stored, fault)
    \/ \E id \in 1..MaxImages : ImgDeleteStart(p, id)
    \/ \E fault \in CopyFaults : ImgCopy(p, fault)
    \/ \E fault \in BOOLEAN : ImgTrashSave(p, fault)
    \/ \E fault \in BOOLEAN : ImgUnlink(p, fault)
    \/ \E fault \in BOOLEAN : ImgFlagSave(p, fault)

\* A request that edits an idea's workflow status.
StatusRequests(p) ==
    \/ \E pk \in IdeaIds, form \in StatusForms : EditStart(p, pk, form)
    \/ EditReload(p)
    \/ \E failAt \in 0..3 : EditSave(p, failAt)

\* Recording, status edits and script generation.
InitFlow == Fresh /\ quota = MaxFlowLog

NextFlow == \E p \in Workers : GenRequests(p) \/ StatusRequests(p)

SpecFlow == InitFlow /\ [][NextFlow]_vars

\* The helper functions, each applied by itself.
InitFn == Fresh /\ quota = 0

NextFn ==
    \/ \E version \in Versions, idea_name \in PromptNames, global_mood \in Moods,
          raw_content \in PromptContents, target_platform \in Platforms :
            PromptCall(version, idea_name, global_mood, raw_content, target_platform)
    \/ \E uploaded_file \in UploadedFiles, libs \in Installed :
            ExtractCall(uploaded_file, libs)

SpecFn == InitFn /\ [][NextFn]_vars

\* The record form with every kind of submission.
InitRec == Fresh /\ quota = MaxRecLog

NextRec ==
    \E p \in Workers :
        \E name \in SubmittedNames, pasted \in SubmittedTexts, uploaded_file \in SubmittedFiles,
           libs \in { {}, { "docx", "pypdf" } }, failAt \in 0..4 :
            Record(p, name, pasted, uploaded_file, libs, failAt)

SpecRec == InitRec /\ [][NextRec]_vars

\* A request of script generation answered with a payload of any shape.
PayloadRequests(p) ==
    \/ \E name \in IdeaNames, pasted \in PastedTexts, f \in Uploads,
          libs \in Libs, failAt \in 0..4 :
            Record(p, name, pasted, f, libs, failAt)
    \/ \E pk \in IdeaIds, form \in GenForms : GenStart(p, pk, form)
    \/ \E r \in PayloadResponses, jsonErr \in ResponseJsonErrors : GenCall(p, r, jsonErr)
    \/ GenLookup(p)
    \/ \E failAt \in 0..4 : GenSave(p, failAt)

\* A request on a scene: image generation and scene edit.
SceneRequests(p) ==
    \/ \E pk \in IdeaIds, scene_index \in SceneIndexes, stored \in BOOLEAN, fault \in BOOLEAN :
            ImageGenerate(p, pk, scene_index, stored, fault)
    \/ \E pk \in IdeaIds, scene_index \in SceneIndexes, new_description \in Descriptions :
            SceneEditStart(p, pk, scene_index, new_description)
    \/ \E fault \in BOOLEAN : SceneEditSave(p, fault)

\* Recording, script generation with payloads of every shape, and the scenes.
InitScene == Fresh /\ quota = MaxSceneLog

NextScene == \E p \in Workers : PayloadRequests(p) \/ SceneRequests(p)

SpecScene == InitScene /\ [][NextScene]_vars

\* A request of the trash view.
TrashRequests(p) ==
    \/ \E pk \in IdeaIds : TrashStart(p, pk)
    \/ \E fault \in BOOLEAN : TrashSave(p, fault)
    \/ \E fault \in BOOLEAN : TrashLog(p, fault)

\* A request of the edit form.
EditRequests(p) ==
    \/ \E pk \in IdeaIds, form \in EditForms : EditStart(p, pk, form)
    \/ EditReload(p)
    \/ \E failAt \in 0..3 : EditSave(p, failAt)

\* A request of a handler that looks the idea up in the default manager:
\* script generation, image generation (the mock generator stores no file)
\* and scene edit; the recorder creates the ideas.
LookupRequests(p) ==
    \/ \E name \in IdeaNames, pasted \in PastedTexts, f \in Uploads,
          libs \in Libs, failAt \in 0..4 :
            Record(p, name, pasted, f, libs, failAt)
    \/ \E pk \in IdeaIds, form \in GenForms : GenStart(p, pk, form)
    \/ \E r \in FewResponses, jsonErr \in ResponseJsonErrors : GenCall(p, r, jsonErr)
    \/ GenLookup(p)
    \/ \E failAt \in 0..4 : GenSave(p, failAt)
    \/ \E pk \in IdeaIds, scene_index \in SceneIndexes, fault \in BOOLEAN :
            ImageGenerate(p, pk, scene_index, FALSE, fault)
    \/ \E pk \in IdeaIds, scene_index \in SceneIndexes, new_description \in Descriptions :
            SceneEditStart(p, pk, scene_index, new_description)
    \/ \E fault \in BOOLEAN : SceneEditSave(p, fault)

\* The trash view and every handler that looks an idea up in the default
\* manager.
InitTrash == Fresh /\ quota = MaxTrashLog

NextTrash ==
    \E p \in Workers : LookupRequests(p) \/ TrashRequests(p) \/ EditRequests(p)

SpecTrash == InitTrash /\ [][NextTrash]_vars

\* Recording, script generation and the storyboard.
InitImg == Fresh /\ quota = MaxImgLog

NextImg == \E p \in Workers : GenRequests(p) \/ ImageRequests(p)

SpecImg == InitImg /\ [][NextImg]_vars

\* ------------------------------------------------------------ properties
\* The persisted rows.
Persisted == << ideas, sources, breakdowns, logs >>

\* The step just taken finished a generation request with a redirect.
GenAnswered == out.req.h = "gen" /\ out.resp.code = 302

\* The statements of a generation's commit.
GenOps == { "breakdown_save", "idea_save", "log_create" }

\* The last row of the log of idea i is a generation's.
LastLogIsGeneration(i) ==
    /\ logs[i] # << >>
    /\ Head(logs[i][Len(logs[i])]) =
          "Successfully generated and saved Script Breakdown from Ollama using"

\* C1: a generation's status transition to 'Script' is committed if and only
\* if the same generation's breakdown write and its log row are committed:
\* whatever step of the commit fails, a finished generation request has
\* committed all three statements or none, and when it committed them the
\* idea is in status 'Script', has its breakdown and its log ends with the
\* generation's row.
C1_StatusIffBreakdownAndLog ==
    GenAnswered =>
        LET w == out.req.wrote
            pk == out.req.pk
        IN  /\ ("idea_save" \in w) <=> ("breakdown_save" \in w)
            /\ ("idea_save" \in w) <=> ("log_create" \in w)
            /\ "idea_save" \in w =>
                  /\ ideas[pk].status = "Script"
                  /\ BreakdownsOf(DB, pk) # {}
                  /\ LastLogIsGeneration(pk)

\* A generation whose log-row creation failed, after its breakdown and its
\* status were written inside the block, finished with nothing committed.
C1_Witness ==
    /\ GenAnswered
    /\ out.resp.exc.at = "log_create"
    /\ out.req.wrote = {}
    /\ ideas[out.req.pk].status = "Draft"

\* C2: when the breakdown save, the idea save or the log-row creation of a
\* generation's commit fails, the step that ends the request leaves every
\* persisted row as it was (status, breakdown rows, log rows) and answers
\* with the persistence-failure notice carrying the error's kind and message.
C2_FailedCommitChangesNothing ==
    [][ \A p \in Workers :
          (pc[p] = "gen_save" /\ pc'[p] = "idle" /\ out'.resp.exc.at \in GenOps)
          => /\ Persisted' = Persisted
             /\ out'.resp.to = "detail"
             /\ out'.resp.notice = "Database SAVE FAILED"
             /\ out'.resp.exc.type # ""
             /\ out'.resp.exc.msg # "" ]_vars

\* A generation whose idea save failed finished with the persistence-failure
\* notice; the idea is still a draft without a breakdown.
C2_Witness ==
    /\ GenAnswered
    /\ out.resp.notice = "Database SAVE FAILED"
    /\ out.resp.exc.at = "idea_save"
    /\ ideas[out.req.pk].status = "Draft"
    /\ BreakdownsOf(DB, out.req.pk) = {}
    /\ Len(logs[out.req.pk]) = 1

\* The breakdown rows of idea i are one row, that of the generation that
\* committed last for the idea.
HoldsLastGeneration(i) ==
    /\ Cardinality(BreakdownsOf(DB, i)) = 1
    /\ \A b \in BreakdownsOf(DB, i) :
          breakdowns[b] = GenBreakdownRow(i, lastGen[i].data, lastGen[i].form)

\* C3: after successful generations that did not overlap, an idea has exactly
\* one breakdown row, holding the payload and the metadata (variant id,
\* platform, mood, audience) of the most recent one; an idea no generation
\* committed for has no breakdown row.
C3_OneBreakdownHoldingLatest ==
    \A i \in AllObjects(DB) :
        /\ lastGen[i].n = 0 => BreakdownsOf(DB, i) = {}
        /\ (lastGen[i].n > 0 /\ ~lastGen[i].conc) => HoldsLastGeneration(i)

\* A second generation, run after the first had finished, committed for an
\* idea that had a breakdown.
C3_Witness ==
    \E i \in AllObjects(DB) :
        /\ lastGen[i].n = 2
        /\ lastGen[i].had
        /\ ~lastGen[i].conc
        /\ ~lastGen[i].raced
        /\ GenAnswered
        /\ out.resp.notice = "created successfully"

\* C4: the two generation failures are never conflated: a connection error,
\* a timeout or an error status yields the 'could not reach' notice, and a
\* response received with success status whose body or message content is
\* not valid JSON yields the 'invalid JSON' notice.
C4_FailuresNeverConflated ==
    out.req.h = "gen" =>
        /\ out.resp.exc.at \in { "requests.post", "raise_for_status" }
              => out.resp.notice = "could not reach"
        /\ (/\ out.resp.exc.at \in { "response.json", "json.loads" }
            /\ IsInstance(out.resp.exc, "json.JSONDecodeError"))
              => out.resp.notice = "invalid JSON"

\* C5: a generation request that ends with the unreachable notice or with
\* the invalid-JSON notice changes no persisted state: no step of it, from
\* the load of the idea to the answer, changes a row.
C5_RemoteFailureChangesNothing ==
    [][ \A p \in Workers :
          (\/ pc[p] = "idle" /\ pc'[p] = "gen_call"
           \/ /\ pc[p] = "gen_call"
              /\ pc'[p] = "idle"
              /\ out'.resp.notice \in { "could not reach", "invalid JSON" })
          => Persisted' = Persisted ]_vars

\* A generation for an idea that has a breakdown ended with the invalid-JSON
\* notice; the idea is still scripted and keeps its breakdown.
C5_Witness ==
    /\ GenAnswered
    /\ out.resp.notice = "invalid JSON"
    /\ ideas[out.req.pk].status = "Script"
    /\ HoldsLastGeneration(out.req.pk)
    /\ Len(logs[out.req.pk]) = 2

\* The four notices of a generation request.
GenNotices ==
    { "created successfully", "could not reach", "invalid JSON", "Database SAVE FAILED" }

\* C6: every generation request addressed to an existing idea that is not in
\* the trash ends with a redirect to the idea's detail view carrying exactly
\* one of the four notices, whatever the remote service returns.
C6_AlwaysRedirectWithOneNotice ==
    (out.req.h = "gen" /\ out.resp.code # 404) =>
        /\ out.resp.code = 302
        /\ out.resp.to = "detail"
        /\ out.resp.notice \in GenNotices
        /\ out.resp.earlier = << >>

\* C7: when two generation requests for the same idea held valid payloads
\* at the same time, the idea's breakdown is one row holding the payload and
\* the metadata of the request that committed last, whether the idea had a
\* breakdown before or not.
C7_LastWriterWins ==
    \A i \in AllObjects(DB) :
        (lastGen[i].n > 0 /\ lastGen[i].conc) => HoldsLastGeneration(i)

\* Two generation requests for an idea that had a breakdown held their
\* payloads at the same time and both committed; both have finished.
C7_Witness ==
    \E i \in AllObjects(DB) :
        /\ lastGen[i].conc
        /\ lastGen[i].raced
        /\ lastGen[i].had
        /\ lastGen[i].n = 3
        /\ \A p \in Workers : Idle(p)

\* A step of worker p in the trash view, the admin's soft delete or the
\* admin's restore.
TrashOrRestoreStep(p) ==
    /\ pc'[p] # pc[p] \/ loc'[p] # loc[p]
    /\ \/ loc[p].h \in { "trash", "admin_trash", "restore" }
       \/ loc'[p].h \in { "trash", "admin_trash", "restore" }

\* C8: a trash or restore action changes only the deleted flag of ideas
\* (and appends log rows): status, title, raw content and breakdowns stay as
\* the last commit of any other action left them.
C8_OnlyTheFlagChanges ==
    [][ \A p \in Workers :
          TrashOrRestoreStep(p)
          => /\ Len(ideas') = Len(ideas)
             /\ \A i \in 1..Len(ideas) :
                   ideas'[i] = [ideas[i] EXCEPT !.is_deleted = ideas'[i].is_deleted]
             /\ breakdowns' = breakdowns
             /\ sources' = sources ]_vars

\* The ideas ever recorded: those whose log begins with the recorder's row.
Recorded ==
    { i \in IdeaIds : logs[i] # << >> /\ Head(logs[i]) = << "Idea Recorded" >> }

\* C9: ContentIdea.objects returns exactly the ideas whose deleted flag is
\* false, and ContentIdea.all_objects returns every idea ever recorded, in
\* the trash or not.
C9_ManagersAgreeWithTheFlag ==
    /\ AllObjects(DB) = Recorded
    /\ Objects(DB) = { i \in Recorded : ideas[i].is_deleted = FALSE }

\* One idea is in the trash and another is not.
C9_Witness ==
    /\ \E i \in Recorded : ideas[i].is_deleted
    /\ \E i \in Recorded : ~ideas[i].is_deleted
    /\ Objects(DB) # AllObjects(DB)
    /\ Objects(DB) # {}

\* The log rows of the trash view and of the admin's soft delete.
TrashRows ==
    { << "Idea moved to Trash (Soft Delete)" >>,
      << "Soft-deleted content idea (Moved to Trash)." >> }

\* C10: trashing an idea and then restoring it adds two log rows, one for
\* each transition: when a restore has finished and nothing else runs, every
\* idea it took out of the trash, whose log holds the trash's row, is out of
\* the trash and has the restore's row as the last row of its log.
C10_TrashThenRestoreLogsBoth ==
    (out.req.h = "restore" /\ out.resp.code = 200 /\ \A p \in Workers : Idle(p)) =>
        \A i \in out.req.trashed :
            (\E n \in 1..Len(logs[i]) : logs[i][n] \in TrashRows) =>
                /\ ideas[i].is_deleted = FALSE
                /\ i \in out.req.logged
                /\ logs[i][Len(logs[i])] = << "Idea restored from Trash via Admin" >>

\* C11: a bulk restore sets the deleted flag of every selected idea to false
\* and appends one log row per restored idea, also when the selection was
\* made under a filter on the deleted flag: when a restore has finished, it
\* has written a log row for exactly the rows its UPDATE matched, and as
\* many as the rows it took out of the trash at least.
C11_OneLogRowPerRestoredIdea ==
    (out.req.h = "restore" /\ out.resp.code = 200) =>
        /\ out.req.logged = out.req.restored
        /\ Cardinality(out.req.logged) >= Cardinality(out.req.trashed)

\* The steps of soft_delete that make up the copy to the trash storage.
CopySteps == { "image_file.open", "trash_file.save" }

\* A soft-delete of an image has just been answered with a failure of its
\* copy step.
CopyFailed(o) ==
    /\ o.by # 0
    /\ o.req.h = "img_delete"
    /\ o.req.active
    /\ o.resp.exc.at \in CopySteps

MediaFiles(fs) == { f \in fs : f.store = "media" }

\* C12: a soft-delete whose copy of the primary file to the trash storage
\* fails leaves every SceneImage row as it was (the deleted flag and the
\* primary file reference as they were), leaves the files of the media storage
\* as they were and answers with the failure notice; and whenever a step
\* removes a file from the media storage, the request taking it has a
\* finished copy of that file in the trash storage.
C12_FailedCopyLeavesImageIntact ==
    [][ /\ CopyFailed(out') =>
            /\ images' = images
            /\ MediaFiles(files') = MediaFiles(files)
            /\ out'.resp.code = 302
            /\ out'.resp.level = "error"
            /\ out'.resp.notice = "Failed to soft delete image"
        /\ MediaFiles(files') # MediaFiles(files) /\ MediaFiles(files') \subseteq MediaFiles(files) =>
            \E p \in Workers :
                /\ pc[p] = "img_unlink"
                /\ pc'[p] = "img_flag_save"
                /\ Stored("trash", loc[p].image.trash_file) \in files
                /\ images[loc[p].id].trash_file # NoName
      ]_vars

\* A copy has failed on an image whose primary file is in the media storage.
C12_Witness ==
    /\ CopyFailed(out)
    /\ out.req.present
    /\ out.resp.exc.at = "trash_file.save"
    /\ ~images[out.req.pk].is_deleted
    /\ Stored("media", images[out.req.pk].image_file) \in files

\* C13: every SceneImage row whose deleted flag is true has no primary file
\* reference and has a trash file reference.
C13_DeletedImageHasOnlyTrashFile ==
    \A n \in 1..Len(images) :
        images[n].is_deleted =>
            /\ images[n].image_file = NoName
            /\ images[n].trash_file # NoName

\* An image has been soft-deleted.
C13_Witness ==
    /\ out.req.h = "img_delete"
    /\ out.by # 0
    /\ out.req.active
    /\ out.resp.level = "info"
    /\ images[out.req.pk].is_deleted

\* C14: when a soft-delete of an active image whose primary file is not in
\* the media storage is answered, the image's deleted flag is true.
C14_MissingFileSkipsCopy ==
    (/\ out.by # 0
     /\ out.req.h = "img_delete"
     /\ out.req.active
     /\ ~out.req.present
     /\ \A q \in Workers : pc[q] = "idle") =>
        images[out.req.pk].is_deleted

\* The log row a generation with this form writes.
GenerationLogRow(form) ==
    << "Successfully generated and saved Script Breakdown from Ollama using",
       form.llm_prompt_version >>

\* C15: the step that ends a generation with success leaves the idea in
\* status 'Script' whatever its status was, leaves it exactly one breakdown
\* row, whose data is the parsed payload and whose variant id and platform
\* are the submitted ones, and appends exactly one log row, the
\* generation's, to the idea's log and none to any other log.
C15_SuccessSetsScriptStoresPayloadLogsOnce ==
    [][ \A p \in Workers :
          (pc[p] = "gen_save" /\ pc'[p] = "idle" /\ out'.resp.level = "success") =>
            /\ ideas'[loc[p].pk].status = "Script"
            /\ Cardinality({ b \in 1..Len(breakdowns') : breakdowns'[b].idea = loc[p].pk }) = 1
            /\ \A b \in 1..Len(breakdowns') :
                  breakdowns'[b].idea = loc[p].pk =>
                      /\ breakdowns'[b].breakdown_data = loc[p].data
                      /\ breakdowns'[b].prompt_used = loc[p].form.llm_prompt_version
                      /\ breakdowns'[b].target_platform = loc[p].form.target_platform
            /\ logs'[loc[p].pk] = Append(logs[loc[p].pk], GenerationLogRow(loc[p].form))
            /\ \A i \in IdeaIds \ { loc[p].pk } : logs'[i] = logs[i]
            /\ loc[p].data \in { json_loads(JStr(ContentOne)).val,
                                 json_loads(JStr(ContentTwo)).val }
      ]_vars

\* A generation has succeeded for an idea that an edit had moved to
\* 'Published'.
C15_Witness ==
    /\ GenAnswered
    /\ out.resp.level = "success"
    /\ ideas[out.req.pk].status = "Script"
    /\ Len(logs[out.req.pk]) = 3
    /\ logs[out.req.pk][2] = << "Updated:", "Status changed from", "Draft", "to", "Published" >>
    /\ LastLogIsGeneration(out.req.pk)

\* The opening line of the template the claim names for a variant.
ExpectedOpening(version) ==
    IF version = JStr(<< "V2_Pacing" >>) THEN Head(PROMPT_V2)
    ELSE IF version = JStr(<< "V3_Narrative" >>) THEN Head(PROMPT_V3)
    ELSE Head(PROMPT_V1)

\* The tokens part occur in text one after the other.
Contains(text, part) ==
    \E i \in 1..(Len(text) - Len(part) + 1) : SubSeq(text, i, i + Len(part) - 1) = part

\* C16: get_llama_prompt returns for every variant identifier, unknown,
\* empty and absent ones included, two messages, system then user; the user
\* message opens as the V2 template for 'V2_Pacing', as the V3 template for
\* 'V3_Narrative' and as the V1 template otherwise, and holds the idea's
\* content as given; the call raises nothing and changes no state.
C16_PromptIsSystemThenUserOfTheVariant ==
    [][ call'.fn = "get_llama_prompt" =>
            /\ call'.result.ok
            /\ Len(call'.result.val) = 2
            /\ call'.result.val[1].role = "system"
            /\ call'.result.val[1].content = system_prompt
            /\ call'.result.val[2].role = "user"
            /\ Head(call'.result.val[2].content) = ExpectedOpening(call'.args[1])
            /\ Contains(call'.result.val[2].content, FormatValue(call'.args[4]))
            /\ UNCHANGED Untouched
      ]_vars

\* The prompt has been built for an unknown variant, from the V1 template,
\* with content that holds braces of its own.
C16_Witness ==
    /\ call.fn = "get_llama_prompt"
    /\ call.args[1] = JStr(<< "V9_Unknown" >>)
    /\ call.args[4] = JStr(<< "{", "idea_name", "}" >>)
    /\ call.result.ok
    /\ Head(call.result.val[2].content) = Head(PROMPT_V1)
    /\ Contains(call.result.val[2].content, << "RAW CONTENT:", "{", "idea_name", "}" >>)

\* C20: extract_text_from_file raises nothing: for every uploaded file it
\* returns a text, the extracted one or one that starts with 'ERROR:'.
C20_ExtractionNeverRaises ==
    call.fn = "extract_text_from_file" => call.result.ok

\* A recording has just been answered.
RecordAnswered(o) == o.by # 0 /\ o.req.h = "record"

\* The rows but the last one are the rows there were.
OneAppended(before, after) ==
    /\ Len(after) = Len(before) + 1
    /\ SubSeq(after, 1, Len(before)) = before

\* C17: the step that answers a submission with success has created exactly
\* one idea row, in status 'Draft', exactly one source row of that idea, of
\* type 'File' when a file was uploaded and of type 'Text' otherwise, and
\* exactly one log row, 'Idea Recorded', of that idea; a step that answers
\* otherwise has created no row at all.
C17_RecordCreatesIdeaSourceLogOrNothing ==
    [][ RecordAnswered(out') =>
          IF out'.resp.level = "success"
          THEN /\ out'.req.pk = Len(ideas) + 1
               /\ OneAppended(ideas, ideas')
               /\ ideas'[Len(ideas')].status = "Draft"
               /\ ~ideas'[Len(ideas')].is_deleted
               /\ OneAppended(sources, sources')
               /\ sources'[Len(sources')].idea = out'.req.pk
               /\ sources'[Len(sources')].source_type =
                     IF out'.req.uploaded_file # NoFile THEN "File" ELSE "Text"
               /\ logs' = [logs EXCEPT ![out'.req.pk] = << << "Idea Recorded" >> >>]
               /\ breakdowns' = breakdowns
          ELSE Persisted' = Persisted
      ]_vars

\* A second idea has been recorded from pasted text.
C17_Witness ==
    /\ RecordAnswered(out)
    /\ out.resp.level = "success"
    /\ out.req.uploaded_file = NoFile
    /\ out.req.pk = 2
    /\ sources[2].source_type = "Text"
    /\ logs[2] = << << "Idea Recorded" >> >>

\* A submission carries an uploaded file and pasted text.
BothGiven(req) == req.uploaded_file # NoFile /\ Strip(req.pasted) # << >>

\* C18: a submission with an uploaded file and pasted text, when it is
\* accepted, records the file's text as the idea's content and a source row
\* of type 'File' naming the file; when it is not accepted no row is
\* created, so the pasted text is in no case the idea's content.
C18_FileWinsOverPastedText ==
    [][ (RecordAnswered(out') /\ BothGiven(out'.req)) =>
          IF out'.resp.level = "success"
          THEN /\ ideas'[out'.req.pk].raw_content = out'.req.uploaded_file.text
               /\ ideas'[out'.req.pk].raw_content # Strip(out'.req.pasted)
               /\ sources'[Len(sources')].source_type = "File"
               /\ sources'[Len(sources')].source_data = FileName(out'.req.uploaded_file)
          ELSE ideas' = ideas /\ sources' = sources
      ]_vars

\* An idea has been recorded from a file submitted together with pasted text.
C18_Witness ==
    /\ RecordAnswered(out)
    /\ BothGiven(out.req)
    /\ out.resp.level = "success"
    /\ ideas[out.req.pk].raw_content = << "From", "file" >>
    /\ out.req.pasted = << "Hello", "World" >>

\* The submission is empty, or the extraction of its file returns a text
\* that starts with 'ERROR:'.
EmptyOrSentinel(req) ==
    IF req.uploaded_file = NoFile
    THEN Strip(req.pasted) = << >>
    ELSE LET extracted == extract_text_from_file(req.uploaded_file, req.libs)
         IN  extracted.ok /\ StartsWith(extracted.val, "ERROR:")

\* C19: a submission with no file and no pasted text, or with a file whose
\* extraction returns a text starting with 'ERROR:', is answered with the
\* 'Submission failed' error on the record form and creates no row.
C19_EmptyOrSentinelIsRejected ==
    [][ (RecordAnswered(out') /\ EmptyOrSentinel(out'.req)) =>
            /\ out'.resp.code = 302
            /\ out'.resp.to = "record"
            /\ out'.resp.level = "error"
            /\ out'.resp.notice = "Submission failed"
            /\ out'.req.pk = 0
            /\ Persisted' = Persisted
      ]_vars

\* A Word file that cannot be parsed has been rejected after an idea was
\* recorded, together with pasted text.
C19_Witness ==
    /\ RecordAnswered(out)
    /\ out.req.uploaded_file.ext = ".docx"
    /\ ~out.req.uploaded_file.parses
    /\ out.req.libs = { "docx", "pypdf" }
    /\ out.req.pasted = << "Hello", "World" >>
    /\ out.resp.notice = "Submission failed"
    /\ Len(ideas) = 1

\* The scenes of a payload are a list (of the object under
\* 'script_breakdown' of an object).
HasSceneList(data) ==
    /\ data.k = "obj"
    /\ "script_breakdown" \in DOMAIN data.fields
    /\ data.fields["script_breakdown"].k = "obj"
    /\ "scenes" \in DOMAIN data.fields["script_breakdown"].fields
    /\ data.fields["script_breakdown"].fields["scenes"].k = "list"

SceneList(data) == data.fields["script_breakdown"].fields["scenes"].items

\* The active idea pk has no breakdown.
NoBreakdown(pk) == pk \in Objects(DB) /\ BreakdownsOf(DB, pk) = {}

\* The active idea pk has a breakdown with a scenes list that has no scene
\* at scene_index.
OutOfRange(pk, scene_index) ==
    /\ pk \in Objects(DB)
    /\ \E b \in BreakdownsOf(DB, pk) :
          /\ HasSceneList(breakdowns[b].breakdown_data)
          /\ scene_index >= Len(SceneList(breakdowns[b].breakdown_data))

\* A request on a scene has just been answered by the step that began it.
SceneAnswered(o) == o.by # 0 /\ o.req.h \in { "img_gen", "scene_edit" }

\* C21: an image generation or a scene edit that addresses an idea without
\* a breakdown, or a scene index past the end of the breakdown's scenes
\* list, is answered with a redirect carrying an error notice, and the step
\* changes no persisted row: no SceneImage row is created and no breakdown
\* is changed.
C21_MissingBreakdownOrSceneIsAnError ==
    [][ (/\ SceneAnswered(out')
         /\ pc[out'.by] = "idle"
         /\ NoBreakdown(out'.req.pk) \/ OutOfRange(out'.req.pk, out'.req.scene_index)) =>
            /\ out'.resp.code = 302
            /\ out'.resp.level = "error"
            /\ Persisted' = Persisted
            /\ images' = images
            /\ files' = files
      ]_vars

\* An image generation for scene 2 of a breakdown with one scene has been
\* answered with the error notice.
C21_Witness ==
    /\ out.by # 0
    /\ out.req.h = "img_gen"
    /\ out.req.scene_index = 2
    /\ OutOfRange(out.req.pk, 2)
    /\ out.resp.exc.type = "IndexError"
    /\ out.resp.level = "error"

\* A step creates a breakdown row or changes the payload of one.
PayloadWritten ==
    \/ Len(breakdowns') # Len(breakdowns)
    \/ \E b \in 1..Len(breakdowns) :
          breakdowns'[b].breakdown_data # breakdowns[b].breakdown_data

\* C22: only the commit of a generation creates a breakdown row or changes
\* the payload of one: every step that does is the commit step of a
\* generation request, and the payload of an idea's breakdown is the one
\* the last committed generation parsed.
C22_OnlyGenerationWritesPayload ==
    [][ /\ PayloadWritten => \E p \in Workers : pc[p] = "gen_save" /\ pc'[p] = "idle"
        /\ \A b \in 1..Len(breakdowns') :
              breakdowns'[b].breakdown_data = lastGen'[breakdowns'[b].idea].data
      ]_vars

\* The sequence later begins with the sequence earlier.
Extends(later, earlier) ==
    /\ Len(later) >= Len(earlier)
    /\ SubSeq(later, 1, Len(earlier)) = earlier

\* C23: the audit log is append-only: every step of a submission, an edit,
\* a trash, a restore or a generation, failed or not, leaves the log of
\* each idea an extension of what it was.
C23_LogIsAppendOnly ==
    [][ \A i \in IdeaIds : Extends(logs'[i], logs[i]) ]_vars

\* An idea has been recorded, trashed and restored, and its log holds the
\* three rows in that order.
C23_Witness ==
    \E i \in IdeaIds :
        /\ Len(logs[i]) = 3
        /\ logs[i][1] = << "Idea Recorded" >>
        /\ logs[i][2] = << "Idea moved to Trash (Soft Delete)" >>
        /\ logs[i][3] = << "Idea restored from Trash via Admin" >>
        /\ ~ideas[i].is_deleted

\* C24: under every interleaving of generation requests, an idea has at
\* most one breakdown row, and the payload and the metadata (variant id,
\* platform, mood, audience) of that row are those of one request, the one
\* that committed last.
C24_OneBreakdownFromOneRequest ==
    \A i \in IdeaIds :
        /\ Cardinality(BreakdownsOf(DB, i)) <= 1
        /\ \A b \in BreakdownsOf(DB, i) :
              /\ lastGen[i].n > 0
              /\ breakdowns[b] = GenBreakdownRow(i, lastGen[i].data, lastGen[i].form)

\* Two generation requests for one idea both found no breakdown; the
\* first has committed its row and the second has been refused by the
\* unique index, leaving the one row of the first.
C24_Witness ==
    /\ GenAnswered
    /\ out.resp.exc.type = "IntegrityError"
    /\ lastGen[out.req.pk].n = 1
    /\ ~lastGen[out.req.pk].had
    /\ Cardinality(BreakdownsOf(DB, out.req.pk)) = 1

\* Worker p takes a step of the admin's restore action.
RestoreStep(p) ==
    /\ pc'[p] # pc[p] \/ loc'[p] # loc[p]
    /\ loc[p].h = "restore" \/ loc'[p].h = "restore"

\* C25: an idea in the trash stays in the trash until a restore: every step
\* that takes the deleted flag of an idea from true to false is a step of
\* the restore action.
C25_OnlyRestoreLeavesTheTrash ==
    [][ \A i \in 1..Len(ideas) :
          (ideas[i].is_deleted /\ ~ideas'[i].is_deleted) => \E p \in Workers : RestoreStep(p)
      ]_vars

\* The log of idea i holds a row of a trash action.
HasTrashRow(i) ==
    \E n \in 1..Len(logs[i]) :
        logs[i][n] \in { << "Idea moved to Trash (Soft Delete)" >>,
                         << "Soft-deleted content idea (Moved to Trash)." >> }

\* C26: the trash transition and its log row are committed together: when
\* a trash request has ended with a failure to create its log row, and no
\* other request is running, the idea is not left in the trash without a
\* trash row in its log.
C26_TrashAndItsLogRowTogether ==
    (/\ out.by # 0
     /\ out.req.h \in { "trash", "admin_trash" }
     /\ out.resp.exc.at = "log_create"
     /\ \A q \in Workers : pc[q] = "idle") =>
        (ideas[out.req.pk].is_deleted => HasTrashRow(out.req.pk))

\* The handlers that look the idea up with get_object_or_404(ContentIdea).
LookupHandlers == { "gen", "edit", "scene_edit", "img_gen" }

\* Worker p, idle before, has taken the first step of a request of handler
\* h for idea pk: the request runs on, or the step has answered it.
Arrived(p, h, pk) ==
    /\ pc[p] = "idle"
    /\ \/ pc'[p] # "idle" /\ loc'[p].h = h /\ loc'[p].pk = pk
       \/ out'.by = p /\ out'.req.h = h /\ out'.req.pk = pk

C28_PastedTextIsAlwaysRecorded ==
    (/\ RecordAnswered(out)
     /\ out.req.uploaded_file = NoFile
     /\ Strip(out.req.pasted) # << >>
     /\ out.resp.exc = NoExc) =>
        /\ out.resp.level = "success"
        /\ out.req.pk \in AllObjects(DB)

\* C29: whatever JSON value a generation stored as the idea's breakdown
\* payload, an image generation for the idea that meets no database fault
\* is answered with a redirect, carrying the success notice or the error
\* notice, and never with an uncaught exception.
C29_ImageGenerationNeverFaults ==
    (/\ out.by # 0
     /\ out.req.h = "img_gen"
     /\ out.req.pk \in Objects(DB)
     /\ BreakdownsOf(DB, out.req.pk) # {}
     /\ out.resp.exc.at # "image_create") =>
        /\ out.resp.code = 302
        /\ out.resp.level \in { "success", "error" }

\* A soft-delete has failed after its copy: at the removal of the primary
\* file or at the final save of the row.
FailedAfterCopy(o) ==
    /\ o.by # 0
    /\ o.req.h = "img_delete"
    /\ o.req.active
    /\ o.resp.level = "error"
    /\ o.resp.exc.at \in { "image_file.delete", "image_save" }

\* The persisted row is active and names a primary file the media storage
\* does not hold.
Dangling(n) ==
    /\ ~images[n].is_deleted
    /\ images[n].image_file # NoName
    /\ Stored("media", images[n].image_file) \notin files

\* C30: when soft_delete has failed after its copy step succeeded, at the
\* removal of the primary file or at the final save, the persisted row of
\* an image whose primary file was present is not left active with a primary
\* file reference whose file has been removed.
C30_FailedDeleteLeavesNoDanglingReference ==
    (FailedAfterCopy(out) /\ out.req.present) => ~Dangling(out.req.pk)

====
